---- MODULE Spec2Model ----
\* Verification model of the lead_by_kari search / enrichment pipeline:
\*   src/src/lib/places.ts            (retry wrapper, query expander, provider
\*                                     search, enrichment orchestrator)
\*   src/src/app/api/search/route.ts  (search routes, enrich route, store access)
\*   src/unnamed/part_010             (enrichCompanyData, updatePlaceWithEnrichedData)
\*
\* The module holds several specifications over one set of variables; each
\* specification drives one component and leaves the other components' variables
\* at their idle values.
EXTENDS Integers, Sequences, FiniteSets, TLC

VARIABLES
  \* ---- retryWithBackoff (places.ts:111-144)
  maxRetries,    \* parameter maxRetries
  baseDelay,     \* parameter baseDelay
  attempt,       \* loop variable attempt
  lastError,     \* local lastError
  rpc,           \* position: "loop" | "wait" | "returned" | "thrown"
  retryResult,   \* value returned / error thrown by retryWithBackoff
  invocations,   \* number of times operation() was invoked
  waits,         \* the delays slept, in order
  opLog,         \* outcome of each invocation of operation(), in order
  \* ---- generateSearchVariations (places.ts:206-227)
  query,         \* argument query, a sequence of characters
  variations,    \* the returned array, NULL before the call returns
  \* ---- searchGooglePlaces / searchGooglePlacesEnhanced (places.ts:232-407, 815-904)
  isProduction,     \* NODE_ENV / VERCEL_ENV === 'production'
  searchQuery,      \* argument query
  maxResultsArg,    \* argument maxResults, 0 when it is undefined
  pageMenu,         \* environment: the result pages the provider may answer with
  spc,              \* position in the call
  searchVariations, \* searchPlaces: searchVariations
  varIdx,           \* searchPlaces: loop variable i (1-based)
  allResults,       \* searchPlaces: allResults
  seenPlaceIds,     \* searchPlaces: seenPlaceIds
  sqResults,        \* searchSingleQueryLimited: allResults
  nextPageToken,    \* searchSingleQueryLimited: nextPageToken is set
  pageCount,        \* searchSingleQueryLimited: pageCount
  sqMaxResults,     \* searchSingleQueryLimited: argument maxResults
  invalidRetries,   \* number of INVALID_REQUEST answers to the pending page
  rawResults,       \* place_ids of every list searchSingleQueryLimited returned, in order
  finalResults,     \* searchPlaces: finalResults
  enhancedResults,  \* searchPlaces: enhancedResults
  detailIdx,        \* searchPlaces: loop variable i of the details loop
  googlePlaces,     \* searchGooglePlacesEnhanced: googlePlaces
  enrichedPlaces,   \* searchGooglePlacesEnhanced: enrichedPlaces
  enrichIdx,        \* searchGooglePlacesEnhanced: loop variable i
  elapsed,          \* Date.now() - startTime, in ms
  netCalls,         \* kinds of network request issued so far
  enrichThrew,      \* place_ids whose enrichPlaceData / enrichPlaceDataFast threw
  lastTextSearch,   \* the last text-search request of searchSingleQueryLimited and its answer
  detailsFailed,    \* place_ids whose getPlaceDetails call threw
  inFlightPeak,     \* the most items one awaited Promise.all has run together, per kind
  \* ---- the places table and the routes (route.ts, part_010, schema.sql)
  clock,            \* NOW(), in minutes
  ticks,            \* number of times the clock has advanced
  handled,          \* number of requests and enrichment passes handled
  placesTable,      \* the rows of table places
  response,         \* what the last handler answered
  persistCount,     \* per place_id: upserts of the search routes that succeeded (up to 2)
  lastPersistAt,    \* per place_id: NOW() of the last such upsert
  \* ---- two overlapping requests on one place_id (route.ts:95-157, 415-431)
  writers,          \* per request: its kind, what it has left to write, the row it read
  lastSet           \* per column of the shared place: the value last set by a statement

retryVars == <<maxRetries, baseDelay, attempt, lastError, rpc, retryResult,
               invocations, waits, opLog>>

variationVars == <<query, variations>>

searchVars == <<isProduction, searchQuery, maxResultsArg, pageMenu, spc,
                searchVariations, varIdx, allResults, seenPlaceIds, sqResults,
                nextPageToken, pageCount, sqMaxResults, invalidRetries, rawResults,
                finalResults, enhancedResults, detailIdx, googlePlaces,
                enrichedPlaces, enrichIdx, elapsed, netCalls, enrichThrew, lastTextSearch,
                detailsFailed, inFlightPeak>>

storeVars == <<clock, ticks, handled, placesTable, response, persistCount, lastPersistAt>>

writerVars == <<writers, lastSet>>

vars == <<retryVars, variationVars, searchVars, storeVars, writerVars>>

notRetry == <<variationVars, searchVars, storeVars, writerVars>>
notVariation == <<retryVars, searchVars, storeVars, writerVars>>
notSearch == <<retryVars, variationVars, storeVars, writerVars>>
notStore == <<retryVars, variationVars, searchVars>>

NULL == "null"

\* ------------------------------------------------------------------------
\* Generic sequence helpers (String.prototype.includes, Array.prototype.slice)
\* ------------------------------------------------------------------------

\* s.includes(pat): pat occurs in s as a contiguous subsequence
Includes(s, pat) ==
  \E i \in 1..(Len(s) - Len(pat) + 1) : SubSeq(s, i, i + Len(pat) - 1) = pat

\* a.slice(0, n) for n >= 0
Take(s, n) == SubSeq(s, 1, IF n < Len(s) THEN n ELSE Len(s))

\* a.slice(n) for n >= 0
Drop(s, n) == SubSeq(s, n + 1, Len(s))

Pow2(n) == 2 ^ n

\* ------------------------------------------------------------------------
\* generateSearchVariations
\* ------------------------------------------------------------------------

UpperLetters == <<"A", "B", "C", "D", "E", "F", "G", "H", "I", "J", "K", "L", "M", "N", "O", "P", "Q", "R", "S", "T", "U", "V", "W", "X", "Y", "Z">>
LowerLetters == <<"a", "b", "c", "d", "e", "f", "g", "h", "i", "j", "k", "l", "m", "n", "o", "p", "q", "r", "s", "t", "u", "v", "w", "x", "y", "z">>

LowerChar(c) ==
  IF \E i \in 1..Len(UpperLetters) : UpperLetters[i] = c
    THEN LowerLetters[CHOOSE i \in 1..Len(UpperLetters) : UpperLetters[i] = c]
    ELSE c

\* String.prototype.toLowerCase
ToLowerCase(s) == [i \in 1..Len(s) |-> LowerChar(s[i])]

RECURSIVE SplitAcc(_, _, _, _)
SplitAcc(s, i, cur, acc) ==
  IF i > Len(s) THEN Append(acc, cur)
  ELSE IF s[i] = " " THEN SplitAcc(s, i + 1, <<>>, Append(acc, cur))
  ELSE SplitAcc(s, i + 1, Append(cur, s[i]), acc)

\* s.split(' ')
SplitSpaces(s) == SplitAcc(s, 1, <<>>, <<>>)

RECURSIVE JoinSpaces(_)
\* words.join(' ')
JoinSpaces(words) ==
  IF Len(words) = 0 THEN <<>>
  ELSE IF Len(words) = 1 THEN words[1]
  ELSE words[1] \o <<" ">> \o JoinSpaces(Tail(words))

\* places.ts:218: the stoplist ['tech', 'ai', 'ml', 'python']
StopWords == { <<"t", "e", "c", "h">>, <<"a", "i">>, <<"m", "l">>,
               <<"p", "y", "t", "h", "o", "n">> }

\* places.ts:216-219: the filter predicate of locationWords
IsLocationWord(word) ==
  \/ Includes(ToLowerCase(word), <<"i", "n", " ">>)
  \/ (Len(word) > 3 /\ ToLowerCase(word) \notin StopWords)

\* places.ts:210: query.length > 50
LongQueryLength == 50

AtLeastThreeWords(words) == Len(words) > 2

\* places.ts:212: words.length > 3
HasEnoughWords(words) == Len(words) > 3

\* places.ts:206-227
GenerateSearchVariations(q) ==
  IF Len(q) > LongQueryLength
    THEN LET words == SplitSpaces(q)
         IN IF HasEnoughWords(words)
              THEN LET firstHalf == JoinSpaces(Take(words, (Len(words) + 1) \div 2))
                       locationWords == SelectSeq(words, IsLocationWord)
                   IN IF Len(locationWords) >= 2
                        THEN <<q, firstHalf, JoinSpaces(locationWords)>>
                        ELSE <<q, firstHalf>>
              ELSE <<q>>
    ELSE <<q>>

\* the words the explored queries are built from
WTelecom == <<"t", "e", "l", "e", "c", "o", "m", "m", "u", "n", "i", "c", "a", "t", "i", "o", "n", "s">>
WRestaurants == <<"r", "e", "s", "t", "a", "u", "r", "a", "n", "t", "s">>
WTech == <<"T", "e", "c", "h">>
WAi == <<"a", "i">>
WIn == <<"i", "n">>
Vocabulary == {WTelecom, WRestaurants, WTech, WAi, WIn}

\* bound on the number of words of an explored query
MaxWords == 5

Queries == { JoinSpaces(ws) : ws \in UNION { [1..n -> Vocabulary] : n \in 0..MaxWords } }

\* no call of generateSearchVariations in progress
VariationIdle ==
  /\ query = <<>>
  /\ variations = <<>>

VariationInit ==
  /\ query \in Queries
  /\ variations = NULL

\* one call of generateSearchVariations(query)
GenerateVariations ==
  /\ variations = NULL
  /\ variations' = GenerateSearchVariations(query)
  /\ UNCHANGED query
  /\ UNCHANGED notVariation

VariationNext == GenerateVariations

\* the number of space-separated words of a string
WordCount(s) == Cardinality({ i \in 1..Len(s) : s[i] = " " }) + 1

\* C5: generateSearchVariations returns the unmodified query first; a query of
\* more than 50 characters and more than 3 space-separated words yields at least
\* 2 variants, any other query yields exactly the query itself.
C5_VariantCount ==
  variations # NULL =>
    /\ Len(variations) >= 1
    /\ variations[1] = query
    /\ (Len(query) > 50 /\ WordCount(query) > 3) => Len(variations) >= 2
    /\ (Len(query) <= 50 \/ WordCount(query) <= 3) => variations = <<query>>

C5_Witness ==
  /\ variations # NULL
  /\ Len(query) > 50
  /\ WordCount(query) > 3
  /\ Len(variations) = 3
  /\ variations[1] = query

C5_WitnessShort ==
  /\ variations # NULL
  /\ Len(query) > 50
  /\ WordCount(query) = 3
  /\ variations = <<query>>

\* ------------------------------------------------------------------------
\* retryWithBackoff
\* ------------------------------------------------------------------------

\* program defaults of retryWithBackoff
DefaultMaxRetries == 3
DefaultBaseDelay == 1000

\* bound on the maxRetries argument explored
MaxRetriesArg == 4

BaseDelays == {DefaultBaseDelay, 250}

\* Error messages the wrapped operations raise, as word sequences.
Msg500 == <<"Google", "Places", "API", "error:", "500", "Internal", "Server", "Error">>
MsgTimeout == <<"Place", "Details", "API", "timeout", "for", "p1">>
Msg403 == <<"Google", "Places", "API", "error:", "403", "Forbidden">>
Msg401 == <<"Place", "Details", "API", "error:", "401", "Unauthorized">>
MsgApiKey == <<"Google", "Places", "API", "key", "not", "configured">>

ErrorMessages == {Msg500, MsgTimeout, Msg403, Msg401, MsgApiKey}

NoError == [msg |-> <<>>, at |-> 0]
RetryFailedWithoutError == [msg |-> <<"Retry", "failed", "without", "error">>, at |-> 0]

IsNonRetryableNo403(message) ==
  \/ Includes(message, <<"API", "key">>)
  \/ Includes(message, <<"401">>)

\* places.ts:129-135: error.message.includes('API key' | '403' | '401')
IsNonRetryable(message) ==
  \/ Includes(message, <<"API", "key">>)
  \/ Includes(message, <<"403">>)
  \/ Includes(message, <<"401">>)

LinearDelay(base, att) == base * (att + 1)

\* places.ts:137: baseDelay * (2 ** attempt)
DelayMs(base, att) == base * Pow2(att)

KeepFirstError(prev, err) == IF prev = NoError THEN err ELSE prev

\* places.ts:122: lastError = error
RecordError(prev, err) == err

\* no call of retryWithBackoff in progress
RetryIdle ==
  /\ maxRetries = 0
  /\ baseDelay = 0
  /\ attempt = 0
  /\ lastError = NoError
  /\ rpc = "idle"
  /\ retryResult = NULL
  /\ invocations = 0
  /\ waits = <<>>
  /\ opLog = <<>>

RetryInit ==
  /\ maxRetries \in 0..MaxRetriesArg
  /\ baseDelay \in BaseDelays
  /\ attempt = 0
  /\ lastError = NoError
  /\ rpc = "loop"
  /\ retryResult = NULL
  /\ invocations = 0
  /\ waits = <<>>
  /\ opLog = <<>>

\* places.ts:120: operation() resolves; its value is returned at once
OperationSucceeds ==
  /\ rpc = "loop"
  /\ attempt < maxRetries
  /\ invocations' = invocations + 1
  /\ opLog' = Append(opLog, [ok |-> TRUE, msg |-> <<>>])
  /\ retryResult' = [kind |-> "value", at |-> invocations + 1]
  /\ rpc' = "returned"
  /\ UNCHANGED <<maxRetries, baseDelay, attempt, lastError, waits>>
  /\ UNCHANGED notRetry

\* places.ts:121-139: operation() rejects; the catch block runs up to the timer
OperationFails ==
  /\ rpc = "loop"
  /\ attempt < maxRetries
  /\ \E m \in ErrorMessages :
       LET err == [msg |-> m, at |-> invocations + 1]
           le == RecordError(lastError, err)
       IN /\ invocations' = invocations + 1
          /\ opLog' = Append(opLog, [ok |-> FALSE, msg |-> m])
          /\ lastError' = le
          /\ IF attempt = maxRetries - 1
               THEN /\ rpc' = "thrown"
                    /\ retryResult' = [kind |-> "error", err |-> le]
               ELSE IF IsNonRetryable(m)
                 THEN /\ rpc' = "thrown"
                      /\ retryResult' = [kind |-> "error", err |-> err]
                 ELSE /\ rpc' = "wait"
                      /\ retryResult' = retryResult
  /\ UNCHANGED <<maxRetries, baseDelay, attempt, waits>>
  /\ UNCHANGED notRetry

\* places.ts:137-139 and the loop increment: the backoff timer fires
BackoffElapsed ==
  /\ rpc = "wait"
  /\ waits' = Append(waits, DelayMs(baseDelay, attempt))
  /\ attempt' = attempt + 1
  /\ rpc' = "loop"
  /\ UNCHANGED <<maxRetries, baseDelay, lastError, retryResult, invocations, opLog>>
  /\ UNCHANGED notRetry

\* places.ts:143: the loop ended without returning or throwing
LoopExhausted ==
  /\ rpc = "loop"
  /\ attempt >= maxRetries
  /\ rpc' = "thrown"
  /\ retryResult' = [kind |-> "error",
                     err |-> IF lastError # NoError THEN lastError
                             ELSE RetryFailedWithoutError]
  /\ UNCHANGED <<maxRetries, baseDelay, attempt, lastError, invocations, waits, opLog>>
  /\ UNCHANGED notRetry

RetryNext ==
  \/ OperationSucceeds
  \/ OperationFails
  \/ BackoffElapsed
  \/ LoopExhausted

RetryDone == rpc \in {"returned", "thrown"}

Retryable(o) == ~o.ok /\ ~IsNonRetryable(o.msg)

\* C2: with maxRetries = 3, an operation that fails retryably on attempts 1 and 2
\* and succeeds on attempt 3 makes retryWithBackoff return attempt 3's value after
\* exactly 3 invocations, having slept baseDelay and then 2*baseDelay; in general
\* the k-th sleep lasts baseDelay * 2^(k-1).
C2_FailTwiceThenSucceed ==
  /\ \A k \in 1..Len(waits) : waits[k] = baseDelay * Pow2(k - 1)
  /\ ( /\ maxRetries = 3
       /\ Len(opLog) = 3
       /\ Retryable(opLog[1]) /\ Retryable(opLog[2]) /\ opLog[3].ok )
     => /\ rpc = "returned"
        /\ retryResult = [kind |-> "value", at |-> 3]
        /\ invocations = 3
        /\ waits = <<baseDelay, 2 * baseDelay>>

C2_Witness ==
  /\ maxRetries = 3
  /\ Len(opLog) = 3
  /\ Retryable(opLog[1]) /\ Retryable(opLog[2]) /\ opLog[3].ok
  /\ rpc = "returned"

\* C3: an operation failing with a message containing "403", "401" or "API key"
\* is not retried: that failure is the last invocation, it is rethrown with no
\* backoff wait after it, and when it is the first failure the operation ran
\* exactly once, whatever maxRetries is.
C3_AuthErrorNeverRetried ==
  \A k \in 1..Len(opLog) :
    (~opLog[k].ok /\ ( \/ Includes(opLog[k].msg, <<"403">>)
                       \/ Includes(opLog[k].msg, <<"401">>)
                       \/ Includes(opLog[k].msg, <<"API", "key">>) ))
    => /\ k = Len(opLog)
       /\ invocations = k
       /\ Len(waits) = k - 1
       /\ rpc = "thrown"
       /\ retryResult = [kind |-> "error", err |-> [msg |-> opLog[k].msg, at |-> k]]

C3_Witness ==
  /\ maxRetries = 3
  /\ opLog = <<[ok |-> FALSE, msg |-> Msg403]>>
  /\ invocations = 1
  /\ waits = <<>>
  /\ rpc = "thrown"

\* C4: the operation is invoked at most maxRetries times; when every attempt
\* fails with a retryable error the wrapper never returns a value and, once it
\* has ended, has thrown the error of the last attempt after maxRetries attempts.
C4_ExhaustionThrowsLastError ==
  /\ invocations <= maxRetries
  /\ (\A k \in 1..Len(opLog) : Retryable(opLog[k]))
     => /\ rpc # "returned"
        /\ (rpc = "thrown" /\ maxRetries > 0)
           => /\ invocations = maxRetries
              /\ retryResult = [kind |-> "error",
                                err |-> [msg |-> opLog[maxRetries].msg, at |-> maxRetries]]

C4_Witness ==
  /\ maxRetries = 3
  /\ rpc = "thrown"
  /\ Len(opLog) = 3
  /\ \A k \in 1..3 : Retryable(opLog[k])
  /\ opLog[1].msg # opLog[3].msg

\* ------------------------------------------------------------------------
\* Provider data (the environment of searchGooglePlaces)
\* ------------------------------------------------------------------------

\* bound on the place ids the provider knows
NumPlaces == 12

PlaceIds == 1..NumPlaces

\* The raw record the text-search endpoint returns for a place id. The JSON is
\* not validated by the code, so records with missing members are possible:
\* place 3 has no name, place 4 no formatted_address, place 5 types = [0].
Stub(id) ==
  [place_id |-> id,
   name |-> IF id = 3 THEN NULL ELSE IF id = 1 THEN "Acme Corp"
            ELSE IF id = 2 THEN "Joes Pizza LLC" ELSE "Bay Consulting",
   formatted_address |-> IF id = 4 THEN NULL ELSE "1 Main St, Springfield, USA",
   types |-> IF id = 5 THEN "bad" ELSE "ok",
   website |-> NULL,
   formatted_phone_number |-> NULL]

\* What the details endpoint adds for a place id (data.result)
Details(id) ==
  [website |-> IF id \in {1, 6} THEN "https://acme.test" ELSE NULL,
   formatted_phone_number |-> IF id = 1 THEN "+1 415-555-0100"
                              ELSE IF id = 2 THEN "12345" ELSE NULL]

\* places.ts:318-324: { ...place, ...details, website: ..., formatted_phone_number: ... }
MergeDetails(place, details) ==
  [place EXCEPT
     !.website = IF details.website # NULL THEN details.website ELSE place.website,
     !.formatted_phone_number =
        IF details.formatted_phone_number # NULL THEN details.formatted_phone_number
        ELSE place.formatted_phone_number]

PlaceIdsOf(places) == [k \in 1..Len(places) |-> places[k].place_id]

\* ------------------------------------------------------------------------
\* searchSingleQueryLimited and searchGooglePlaces
\* ------------------------------------------------------------------------

\* places.ts:249: maxResults || 60
DefaultTargetResults == 60
\* places.ts:357: Math.ceil(maxResults / 20)
ResultsPerPage == 20
\* places.ts:307: batchSize of the details loop
DetailBatchSize == 10

\* bound on the INVALID_REQUEST answers the provider gives to one pending page
MaxInvalidRetries == 2

TargetResults == IF maxResultsArg # 0 THEN maxResultsArg ELSE DefaultTargetResults

\* places.ts:357
MaxPages(maxRes) == (maxRes + ResultsPerPage - 1) \div ResultsPerPage

RECURSIVE FilterSeenOnlyEarlier(_, _)
FilterSeenOnlyEarlier(results, seen) ==
  IF results = <<>> THEN <<>>
  ELSE IF Head(results).place_id \in seen
    THEN FilterSeenOnlyEarlier(Tail(results), seen)
    ELSE <<Head(results)>> \o FilterSeenOnlyEarlier(Tail(results), seen)

RECURSIVE FilterUnseen(_, _)
\* places.ts:262-268: variationResults.filter(...) against seenPlaceIds, which the
\* predicate extends as it goes
FilterUnseen(results, seen) ==
  IF results = <<>> THEN <<>>
  ELSE IF Head(results).place_id \in seen
    THEN FilterUnseen(Tail(results), seen)
    ELSE <<Head(results)>> \o
         FilterUnseen(Tail(results), seen \cup {Head(results).place_id})

\* The answers of the text-search endpoint to one page request
Responses ==
  [kind : {"OK"}, page : pageMenu, token : BOOLEAN]
    \cup [kind : {"HTTP_ERROR", "OVER_QUERY_LIMIT", "INVALID_REQUEST"},
          page : {<<>>}, token : {FALSE}]

\* no Promise.all awaited yet: the most items run together, per kind
NoneInFlight == [details |-> 0, comprehensive |-> 0]

\* a text-search request, identified by its variation and page, and its answer
Requested(variation, page, outcome) ==
  [variation |-> variation, page |-> page, outcome |-> outcome]

\* no text-search request made yet
NoRequest == Requested(0, 0, "none")

SearchIdle ==
  /\ searchQuery = <<>>
  /\ maxResultsArg = 0
  /\ pageMenu = {}
  /\ spc = "idle"
  /\ searchVariations = <<>>
  /\ varIdx = 0
  /\ allResults = <<>>
  /\ seenPlaceIds = {}
  /\ sqResults = <<>>
  /\ nextPageToken = FALSE
  /\ pageCount = 0
  /\ sqMaxResults = 0
  /\ invalidRetries = 0
  /\ rawResults = <<>>
  /\ finalResults = <<>>
  /\ enhancedResults = <<>>
  /\ detailIdx = 0
  /\ googlePlaces = <<>>
  /\ enrichedPlaces = <<>>
  /\ enrichIdx = 0
  /\ elapsed = 0
  /\ netCalls = {}
  /\ enrichThrew = {}
  /\ lastTextSearch = NoRequest
  /\ detailsFailed = {}
  /\ inFlightPeak = NoneInFlight

ShortQuery == WRestaurants \o <<" ">> \o WIn
LongQuery == JoinSpaces(<<WTelecom, WRestaurants, WTech, WTelecom, WRestaurants>>)

\* the pages the provider answers with in SpecSearch: overlapping place ids
OverlapPages == { <<1, 2>>, <<2, 3, 1>> }

\* the calls of SpecSearch: each query without maxResults and with two small
\* ceilings, and the long query with a ceiling above three pages of twenty
SearchCalls ==
  ({ShortQuery, LongQuery} \X {0, 2, 4}) \cup { <<LongQuery, 61>> }

\* A call searchGooglePlaces(query, maxResults)
SearchInit ==
  /\ isProduction \in BOOLEAN
  /\ \E call \in SearchCalls : searchQuery = call[1] /\ maxResultsArg = call[2]
  /\ pageMenu = OverlapPages
  /\ spc = "start"
  /\ searchVariations = <<>>
  /\ varIdx = 0
  /\ allResults = <<>>
  /\ seenPlaceIds = {}
  /\ sqResults = <<>>
  /\ nextPageToken = FALSE
  /\ pageCount = 0
  /\ sqMaxResults = 0
  /\ invalidRetries = 0
  /\ rawResults = <<>>
  /\ finalResults = <<>>
  /\ enhancedResults = <<>>
  /\ detailIdx = 0
  /\ googlePlaces = <<>>
  /\ enrichedPlaces = <<>>
  /\ enrichIdx = 0
  /\ elapsed = 0
  /\ netCalls = {}
  /\ enrichThrew = {}
  /\ lastTextSearch = NoRequest
  /\ detailsFailed = {}
  /\ inFlightPeak = NoneInFlight

\* places.ts:244-250
BeginSearch ==
  /\ spc = "start"
  /\ searchVariations' = GenerateSearchVariations(searchQuery)
  /\ varIdx' = 1
  /\ allResults' = <<>>
  /\ seenPlaceIds' = {}
  /\ spc' = "variation"
  /\ UNCHANGED <<isProduction, searchQuery, maxResultsArg, pageMenu, sqResults,
                 nextPageToken, pageCount, sqMaxResults, invalidRetries, rawResults,
                 finalResults, enhancedResults, detailIdx, googlePlaces,
                 enrichedPlaces, enrichIdx, elapsed, netCalls, enrichThrew,
                 lastTextSearch,
                 detailsFailed, inFlightPeak>>
  /\ UNCHANGED notSearch

\* places.ts:252-259: the loop condition holds; searchSingleQueryLimited is called
StartVariation ==
  /\ spc = "variation"
  /\ varIdx <= Len(searchVariations)
  /\ Len(allResults) < TargetResults
  /\ sqMaxResults' = TargetResults - Len(allResults)
  /\ sqResults' = <<>>
  /\ nextPageToken' = FALSE
  /\ pageCount' = 0
  /\ invalidRetries' = 0
  /\ spc' = "page"
  /\ UNCHANGED <<isProduction, searchQuery, maxResultsArg, pageMenu,
                 searchVariations, varIdx, allResults, seenPlaceIds, rawResults,
                 finalResults, enhancedResults, detailIdx, googlePlaces,
                 enrichedPlaces, enrichIdx, elapsed, netCalls, enrichThrew,
                 lastTextSearch,
                 detailsFailed, inFlightPeak>>
  /\ UNCHANGED notSearch

\* places.ts:285-288: searchSingleQueryLimited threw; the variation is skipped
VariationFailed ==
  /\ varIdx' = varIdx + 1
  /\ spc' = "variation"
  /\ UNCHANGED <<allResults, seenPlaceIds, rawResults, sqResults, nextPageToken,
                 pageCount, invalidRetries>>

\* places.ts:406 and 262-277: searchSingleQueryLimited returns, the new places
\* are appended
VariationReturned(results) ==
  LET variationResults == Take(results, sqMaxResults)
      newResults == FilterUnseen(variationResults, seenPlaceIds)
  IN /\ allResults' = allResults \o newResults
     /\ seenPlaceIds' = seenPlaceIds \cup { newResults[k].place_id : k \in 1..Len(newResults) }
     /\ rawResults' = rawResults \o PlaceIdsOf(variationResults)
     /\ varIdx' = varIdx + 1
     /\ spc' = "variation"
     /\ sqResults' = results
     /\ UNCHANGED <<nextPageToken, pageCount, invalidRetries>>

\* places.ts:359-404: one iteration of the page loop, from the fetch to the
\* next fetch, the return or the throw
FetchPage ==
  /\ spc = "page"
  /\ netCalls' = netCalls \cup {"textsearch"}
  /\ \E resp \in Responses :
       /\ lastTextSearch' = Requested(varIdx, pageCount + 1, resp.kind)
       /\ CASE resp.kind \in {"HTTP_ERROR", "OVER_QUERY_LIMIT"} -> VariationFailed
            [] resp.kind = "INVALID_REQUEST" ->
                 IF nextPageToken
                   THEN /\ invalidRetries < MaxInvalidRetries
                        /\ invalidRetries' = invalidRetries + 1
                        /\ UNCHANGED <<spc, varIdx, allResults, seenPlaceIds, rawResults,
                                       sqResults, nextPageToken, pageCount>>
                   ELSE VariationFailed
            [] resp.kind = "OK" ->
                 LET results == sqResults \o [k \in 1..Len(resp.page) |-> Stub(resp.page[k])]
                     count == pageCount + 1
                 IN IF Len(results) >= sqMaxResults \/ count >= MaxPages(sqMaxResults)
                      THEN VariationReturned(results)
                      ELSE IF resp.token
                        THEN /\ sqResults' = results
                             /\ pageCount' = count
                             /\ nextPageToken' = TRUE
                             /\ invalidRetries' = 0
                             /\ UNCHANGED <<spc, varIdx, allResults, seenPlaceIds, rawResults>>
                        ELSE VariationReturned(results)
  /\ UNCHANGED <<isProduction, searchQuery, maxResultsArg, pageMenu,
                 searchVariations, sqMaxResults, finalResults, enhancedResults,
                 detailIdx, googlePlaces, enrichedPlaces, enrichIdx, elapsed,
                 enrichThrew,
                 detailsFailed, inFlightPeak>>
  /\ UNCHANGED notSearch

\* places.ts:292: maxResults ? allResults.slice(0, maxResults) : allResults
TrimToMax(results) ==
  IF maxResultsArg # 0 THEN Take(results, maxResultsArg) ELSE results

\* places.ts:252, 292-310: the variation loop ends; in production the basic
\* results are returned, otherwise the details loop starts
FinishVariations ==
  /\ spc = "variation"
  /\ ~(varIdx <= Len(searchVariations) /\ Len(allResults) < TargetResults)
  /\ finalResults' = TrimToMax(allResults)
  /\ IF isProduction
       THEN /\ googlePlaces' = TrimToMax(allResults)
            /\ spc' = "searched"
       ELSE /\ googlePlaces' = googlePlaces
            /\ spc' = "enhance"
  /\ detailIdx' = 0
  /\ enhancedResults' = <<>>
  /\ UNCHANGED <<isProduction, searchQuery, maxResultsArg, pageMenu,
                 searchVariations, varIdx, allResults, seenPlaceIds, sqResults,
                 nextPageToken, pageCount, sqMaxResults, invalidRetries, rawResults,
                 enrichedPlaces, enrichIdx, elapsed, netCalls, enrichThrew,
                 lastTextSearch,
                 detailsFailed, inFlightPeak>>
  /\ UNCHANGED notSearch

Max(a, b) == IF a > b THEN a ELSE b

SliceToEnd(list, i, batchSize) == Drop(list, i)
\* places.ts:311 and 872: list.slice(i, i + batchSize)
BatchOf(list, i, batchSize) ==
  SubSeq(list, i + 1, IF i + batchSize < Len(list) THEN i + batchSize ELSE Len(list))

\* bound on the getPlaceDetails calls of one batch that fail
MaxDetailFailures == 2

\* which getPlaceDetails calls of a batch of n return (TRUE) and which throw
FetchOutcomes(n) ==
  { fetched \in [1..n -> BOOLEAN] :
      Cardinality({ j \in 1..n : ~fetched[j] }) <= MaxDetailFailures }

DetailsMergedAnyway(place, fetched) == MergeDetails(place, Details(place.place_id))
\* places.ts:315-328: the callback of the details batch: the place with its
\* details merged, or the place as it was when getPlaceDetails threw
WithDetails(place, fetched) ==
  IF fetched THEN MergeDetails(place, Details(place.place_id)) ELSE place

\* places.ts:310-338: one batch of getPlaceDetails calls, awaited together; a
\* failed fetch leaves the place as it was
EnhanceBatch ==
  /\ spc = "enhance"
  /\ detailIdx < Len(finalResults)
  /\ LET batch == BatchOf(finalResults, detailIdx, DetailBatchSize)
     IN /\ \E fetched \in FetchOutcomes(Len(batch)) :
             /\ enhancedResults' = enhancedResults \o
                  [k \in 1..Len(batch) |-> WithDetails(batch[k], fetched[k])]
             /\ detailsFailed' = detailsFailed \cup
                  { batch[k].place_id : k \in { j \in 1..Len(batch) : ~fetched[j] } }
        /\ inFlightPeak' = [inFlightPeak EXCEPT !.details = Max(@, Len(batch))]
  /\ detailIdx' = detailIdx + DetailBatchSize
  /\ netCalls' = netCalls \cup {"details"}
  /\ UNCHANGED <<isProduction, searchQuery, maxResultsArg, pageMenu, spc,
                 searchVariations, varIdx, allResults, seenPlaceIds, sqResults,
                 nextPageToken, pageCount, sqMaxResults, invalidRetries, rawResults,
                 finalResults, googlePlaces, enrichedPlaces, enrichIdx, elapsed,
                 enrichThrew, lastTextSearch>>
  /\ UNCHANGED notSearch

\* places.ts:310, 340-341: the details loop ends; enhancedResults is returned
FinishEnhance ==
  /\ spc = "enhance"
  /\ detailIdx >= Len(finalResults)
  /\ googlePlaces' = enhancedResults
  /\ spc' = "searched"
  /\ UNCHANGED <<isProduction, searchQuery, maxResultsArg, pageMenu,
                 searchVariations, varIdx, allResults, seenPlaceIds, sqResults,
                 nextPageToken, pageCount, sqMaxResults, invalidRetries, rawResults,
                 finalResults, enhancedResults, detailIdx, enrichedPlaces, enrichIdx,
                 elapsed, netCalls, enrichThrew,
                 lastTextSearch,
                 detailsFailed, inFlightPeak>>
  /\ UNCHANGED notSearch

\* searchGooglePlaces. searchPlaces catches every failure of a variation and of
\* a details fetch itself, so retryWithBackoff(searchPlaces) returns the result
\* of its first invocation.
SearchNext ==
  \/ BeginSearch
  \/ StartVariation
  \/ FetchPage
  \/ FinishVariations
  \/ EnhanceBatch
  \/ FinishEnhance

\* position of the first occurrence of x in s (0 when absent)
FirstIndex(s, x) ==
  IF \E k \in 1..Len(s) : s[k] = x
    THEN CHOOSE k \in 1..Len(s) : s[k] = x /\ \A j \in 1..(k - 1) : s[j] # x
    ELSE 0

\* C1: the list searchGooglePlaces returns holds each place_id of the variants'
\* result lists exactly once, in the order of first occurrence across the
\* variants (variant order, then page order).
C1_UniqueFirstSeenOrder ==
  spc = "searched" =>
    LET ids == PlaceIdsOf(googlePlaces)
    IN /\ \A a, b \in 1..Len(ids) : a # b => ids[a] # ids[b]
       /\ { ids[k] : k \in 1..Len(ids) } = { rawResults[k] : k \in 1..Len(rawResults) }
       /\ \A a, b \in 1..Len(ids) :
            a < b => FirstIndex(rawResults, ids[a]) < FirstIndex(rawResults, ids[b])

C1_Witness ==
  /\ spc = "searched"
  /\ Len(searchVariations) = 3
  /\ PlaceIdsOf(googlePlaces) = <<2, 3, 1>>
  /\ Len(rawResults) >= 6

\* C18: searchSingleQueryLimited goes on to another page after a successful
\* one only while it has fewer than 3 successful pages, fewer results than its
\* ceiling, and a next-page token from the provider: whatever the ceiling, it
\* requests no fourth page.
C18_AtMostThreePages ==
  [][(spc = "page" /\ spc' = "page" /\ pageCount' = pageCount + 1) =>
       /\ pageCount' < 3
       /\ Len(sqResults') < sqMaxResults
       /\ nextPageToken']_vars

\* C19: while a page token is pending, an INVALID_REQUEST answer makes
\* searchSingleQueryLimited request the same page again, and it does so at most
\* once per page: a second INVALID_REQUEST answer to the same page is not
\* followed by another request for it.
C19_PendingPageRetriedOnce ==
  invalidRetries <= 1

\* the answers that stand for a transient failure of a text-search request:
\* an HTTP 5xx response or a timeout, and a rate-limit status
TransientOutcomes == {"HTTP_ERROR", "OVER_QUERY_LIMIT"}

\* C20: after a transient failure of a text-search request, the next
\* text-search request of the call is a retry (the same request again, or the
\* first request of a new invocation of searchPlaces by retryWithBackoff), and
\* searchPlaces does not go on to return results while the failed request has
\* not been retried.
C20_TransientFailureRetried ==
  [][lastTextSearch.outcome \in TransientOutcomes =>
       /\ lastTextSearch' # lastTextSearch =>
            \/ /\ lastTextSearch'.variation = lastTextSearch.variation
               /\ lastTextSearch'.page = lastTextSearch.page
            \/ lastTextSearch'.variation = 1 /\ lastTextSearch'.page = 1
       /\ spc' # spc => spc' \notin {"enhance", "searched"}]_vars

\* C21: in development mode searchGooglePlaces returns one place per search
\* result, in the same order: a place whose details fetch failed is returned as
\* its search stub, every other place with its details merged.
C21_DetailsFailureKeepsStub ==
  (spc = "searched" /\ ~isProduction) =>
    /\ Len(googlePlaces) = Len(finalResults)
    /\ \A k \in 1..Len(googlePlaces) :
         googlePlaces[k] =
           IF finalResults[k].place_id \in detailsFailed
             THEN finalResults[k]
             ELSE MergeDetails(finalResults[k], Details(finalResults[k].place_id))

\* the details fetch of place 2 failed and that of place 1 succeeded: place 2
\* is returned without a phone number, place 1 with its website
C21_Witness ==
  /\ spc = "searched"
  /\ ~isProduction
  /\ detailsFailed = {2}
  /\ \E k \in 1..Len(googlePlaces) :
       googlePlaces[k].place_id = 2 /\ googlePlaces[k].formatted_phone_number = NULL
  /\ \E k \in 1..Len(googlePlaces) :
       googlePlaces[k].place_id = 1 /\ googlePlaces[k].website = "https://acme.test"

\* ------------------------------------------------------------------------
\* Enrichment of one record (places.ts:410-431, 434-462, 550-646, 692-763, 907-1027)
\* ------------------------------------------------------------------------

\* new Date().getFullYear()
CurrentYear == 2025

\* the characters of the strings that occur in place data and in queries;
\* the empty string and an undefined value have none
Chars(str) ==
  CASE str = "Acme Corp" ->
         <<"A", "c", "m", "e", " ", "C", "o", "r", "p">>
    [] str = "Joes Pizza LLC" ->
         <<"J", "o", "e", "s", " ", "P", "i", "z", "z", "a", " ", "L", "L", "C">>
    [] str = "Bay Consulting" ->
         <<"B", "a", "y", " ", "C", "o", "n", "s", "u", "l", "t", "i", "n", "g">>
    [] str = "1 Main St, Springfield, USA" ->
         <<"1", " ", "M", "a", "i", "n", " ", "S", "t", ",", " ", "S", "p", "r", "i", "n", "g", "f", "i", "e", "l", "d", ",", " ", "U", "S", "A">>
    [] str = "restaurant" ->
         <<"r", "e", "s", "t", "a", "u", "r", "a", "n", "t">>
    [] str = "Food & Beverage" ->
         <<"F", "o", "o", "d", " ", "&", " ", "B", "e", "v", "e", "r", "a", "g", "e">>
    [] str = "Springfield" ->
         <<"S", "p", "r", "i", "n", "g", "f", "i", "e", "l", "d">>
    [] str = "acme" ->
         <<"a", "c", "m", "e">>
    [] str = "pizza llc 1 main" ->
         <<"p", "i", "z", "z", "a", " ", "l", "l", "c", " ", "1", " ", "m", "a", "i", "n">>
    [] OTHER -> <<>>

\* companyName.toLowerCase().includes(word)
NameIncludes(name, word) == Includes(ToLowerCase(Chars(name)), word)

\* places.ts:987-1001
EstimateRevenue(name) ==
  IF \/ NameIncludes(name, <<"e", "n", "t", "e", "r", "p", "r", "i", "s", "e">>)
     \/ NameIncludes(name, <<"c", "o", "r", "p">>)
     \/ NameIncludes(name, <<"i", "n", "t", "e", "r", "n", "a", "t", "i", "o", "n", "a", "l">>)
    THEN "$10M-$50M"
  ELSE IF NameIncludes(name, <<"l", "l", "c">>) \/ NameIncludes(name, <<"i", "n", "c">>)
    THEN "$1M-$10M"
  ELSE IF \/ NameIncludes(name, <<"c", "o", "n", "s", "u", "l", "t", "i", "n", "g">>)
          \/ NameIncludes(name, <<"s", "e", "r", "v", "i", "c", "e", "s">>)
    THEN "$500K-$5M"
  ELSE "$100K-$1M"

\* places.ts:1004-1018
EstimateEmployeeCount(name) ==
  IF \/ NameIncludes(name, <<"e", "n", "t", "e", "r", "p", "r", "i", "s", "e">>)
     \/ NameIncludes(name, <<"i", "n", "t", "e", "r", "n", "a", "t", "i", "o", "n", "a", "l">>)
    THEN "100-500"
  ELSE IF \/ NameIncludes(name, <<"c", "o", "r", "p">>)
          \/ NameIncludes(name, <<"c", "o", "r", "p", "o", "r", "a", "t", "i", "o", "n">>)
    THEN "50-200"
  ELSE IF \/ NameIncludes(name, <<"c", "o", "n", "s", "u", "l", "t", "i", "n", "g">>)
          \/ NameIncludes(name, <<"s", "e", "r", "v", "i", "c", "e", "s">>)
    THEN "10-50"
  ELSE "1-10"

\* places.ts:1026: Math.floor(Math.random() * 20) + 5 ranges over 5..24; the
\* explored draws are the two ends
FoundingOffsets == {5, 24}

\* places.ts:1021-1027, for one draw of Math.random()
EstimateFoundingYear(offset) == CurrentYear - offset

\* formatGooglePlace throws a TypeError when formatted_address, types or
\* geometry is missing (places.ts:412, 416, 425)
FormatGooglePlaceThrows(gp) == gp.formatted_address = NULL \/ gp.types = NULL

\* determineIndustry throws on types = [0] (places.ts:811: types[0]?.replace)
DetermineIndustryThrows(gp) == gp.types = "bad"

\* estimateRevenue throws when the name is missing (places.ts:989)
EstimateRevenueThrows(gp) == gp.name = NULL

\* places.ts:907-919
EnrichPlaceDataFastThrows(gp) ==
  FormatGooglePlaceThrows(gp) \/ DetermineIndustryThrows(gp) \/ EstimateRevenueThrows(gp)

\* places.ts:692-726
EnrichPlaceDataThrows(gp) ==
  FormatGooglePlaceThrows(gp) \/ DetermineIndustryThrows(gp)

\* an undefined number or Date member of a Place; an undefined string or
\* boolean member is NULL, and a boolean member is held as "true" or "false"
NoNumber == -1

BoolStr(b) == IF b THEN "true" ELSE "false"

\* places.ts:416-418, 426: the first type that is not generic, with '_' replaced;
\* types = ['restaurant', 'establishment'] is held as "ok", types = [0] as "bad"
Category(types) == IF types = "ok" THEN "restaurant" ELSE ""

\* places.ts:766-812
DetermineIndustry(types) == IF types = "ok" THEN "Food & Beverage" ELSE NULL

\* places.ts:410-431 spread into a Place whose other members are undefined
BarePlace(gp, now, level) ==
  [place_id |-> gp.place_id,
   name |-> gp.name,
   address |-> gp.formatted_address,
   category |-> Category(gp.types),
   phone |-> gp.formatted_phone_number,
   website |-> gp.website,
   industry |-> NULL,
   revenue |-> NULL,
   employee_count |-> NULL,
   year_founded |-> NoNumber,
   company_age |-> NoNumber,
   email |-> NULL,
   email_verified |-> NULL,
   email_verified_at |-> NoNumber,
   phone_verified |-> NULL,
   phone_verified_at |-> NoNumber,
   website_status |-> NULL,
   website_verified_at |-> NoNumber,
   contact_form_url |-> NULL,
   contact_form_working |-> NULL,
   contact_form_verified_at |-> NoNumber,
   enrichment_level |-> level,
   last_enriched_at |-> NoNumber,
   stored_at |-> now]

\* places.ts:882-887: the catch of comprehensive mode
BasicFallbackRecord(gp, now) == BarePlace(gp, now, "basic")

FastCatchReturnsBasic(gp, now) == BarePlace(gp, now, "basic")
\* places.ts:842-847: the catch of fast mode
FastFallbackRecord(gp, now) == BarePlace(gp, now, "fast")

\* places.ts:907-949, for one draw of Math.random()
EnrichPlaceDataFast(gp, now, offset) ==
  [BarePlace(gp, now, "fast") EXCEPT
     !.industry = DetermineIndustry(gp.types),
     !.revenue = EstimateRevenue(gp.name),
     !.employee_count = EstimateEmployeeCount(gp.name),
     !.year_founded = EstimateFoundingYear(offset),
     !.company_age = CurrentYear - EstimateFoundingYear(offset),
     !.phone_verified = "false",
     !.website_status = IF gp.website # NULL THEN "unknown" ELSE NULL,
     !.last_enriched_at = now]

\* what the fetches of analyzeWebsite meet
ProbeOutcomes ==
  {"ok_contact", "ok_form_down", "ok_plain", "http_404", "http_500", "timeout"}

\* places.ts:550-646
AnalyzeWebsite(url, probe) ==
  IF url = NULL
    THEN [status |-> "no_website", contact_form_url |-> NULL,
          contact_form_working |-> FALSE, emails |-> <<>>]
  ELSE IF probe = "http_404"
    THEN [status |-> "not_found", contact_form_url |-> NULL,
          contact_form_working |-> FALSE, emails |-> <<>>]
  ELSE IF probe \in {"http_500", "timeout"}
    THEN [status |-> "error", contact_form_url |-> NULL,
          contact_form_working |-> FALSE, emails |-> <<>>]
  ELSE IF probe = "ok_contact"
    THEN [status |-> "active", contact_form_url |-> "https://acme.test/contact",
          contact_form_working |-> TRUE, emails |-> <<"info@acme.test">>]
  ELSE IF probe = "ok_form_down"
    THEN [status |-> "active", contact_form_url |-> "https://acme.test/contact",
          contact_form_working |-> FALSE, emails |-> <<>>]
  ELSE [status |-> "active", contact_form_url |-> NULL,
        contact_form_working |-> FALSE, emails |-> <<>>]

\* phone.replace(/\D/g, ''): the digits of the phone numbers of Details
PhoneDigits(phone) ==
  CASE phone = "+1 415-555-0100" -> <<1, 4, 1, 5, 5, 5, 5, 0, 1, 0, 0>>
    [] phone = "12345" -> <<1, 2, 3, 4, 5>>
    [] OTHER -> <<>>

\* places.ts:434-462
VerifyPhoneNumber(phone) ==
  IF phone = NULL THEN FALSE
  ELSE LET clean == PhoneDigits(phone)
       IN IF Len(clean) < 10 \/ Len(clean) > 11 THEN FALSE
          ELSE clean[1] \in 1..9 /\ Len(clean) <= 16

\* places.ts:692-763
EnrichPlaceData(gp, probe, now) ==
  LET websiteAnalysis == IF gp.website # NULL THEN AnalyzeWebsite(gp.website, probe)
                         ELSE AnalyzeWebsite(NULL, probe)
      phoneVerified == IF gp.formatted_phone_number # NULL
                         THEN VerifyPhoneNumber(gp.formatted_phone_number) ELSE FALSE
      hasEmail == Len(websiteAnalysis.emails) > 0
  IN [BarePlace(gp, now, "enhanced") EXCEPT
        !.industry = DetermineIndustry(gp.types),
        !.email = IF hasEmail THEN websiteAnalysis.emails[1] ELSE NULL,
        !.email_verified = BoolStr(hasEmail),
        !.email_verified_at = IF hasEmail THEN now ELSE NoNumber,
        !.phone_verified = BoolStr(phoneVerified),
        !.phone_verified_at = IF phoneVerified THEN now ELSE NoNumber,
        !.website_status = websiteAnalysis.status,
        !.website_verified_at = now,
        !.contact_form_url = websiteAnalysis.contact_form_url,
        !.contact_form_working = BoolStr(websiteAnalysis.contact_form_working),
        !.contact_form_verified_at =
           IF websiteAnalysis.contact_form_url # NULL THEN now ELSE NoNumber,
        !.last_enriched_at = now]

\* ------------------------------------------------------------------------
\* searchGooglePlacesEnhanced
\* ------------------------------------------------------------------------

\* places.ts:820
TimeLimitProduction == 20000
TimeLimitDevelopment == 60000
\* places.ts:859
EnrichBatchSize == 5

TimeLimit == IF isProduction THEN TimeLimitProduction ELSE TimeLimitDevelopment

\* how long searchGooglePlaces and one enrichment batch may take, in ms
SearchDurations == {2000, 61000}
BatchDurations == {1000, 61000}

\* Outcome of one item of a Promise.all: the record it resolves to, whether the
\* enrichment function threw, whether the item's promise rejected, and the
\* network requests it issued.
Item(place, threw, rejected, calls) ==
  [place |-> place, threw |-> threw, rejected |-> rejected, calls |-> calls]

\* places.ts:837-849: one item of the fast-mode Promise.all
FastModeItems(gp, now) ==
  IF ~EnrichPlaceDataFastThrows(gp)
    THEN { Item(EnrichPlaceDataFast(gp, now, o), FALSE, FALSE, {}) : o \in FoundingOffsets }
  ELSE IF FormatGooglePlaceThrows(gp)
    THEN { Item(NULL, TRUE, TRUE, {}) }
  ELSE { Item(FastFallbackRecord(gp, now), TRUE, FALSE, {}) }

\* places.ts:866: one item of the time-limit fallback, enrichPlaceDataFast(place)
\* with no catch
FallbackItems(gp, now) ==
  IF ~EnrichPlaceDataFastThrows(gp)
    THEN { Item(EnrichPlaceDataFast(gp, now, o), FALSE, FALSE, {}) : o \in FoundingOffsets }
    ELSE { Item(NULL, TRUE, TRUE, {}) }

ProbeCalls(gp, probe) ==
  IF gp.website = NULL THEN {}
  ELSE IF probe \in {"ok_contact", "ok_form_down"} THEN {"website", "contactform"}
  ELSE {"website"}

\* places.ts:876-889: one item of a comprehensive batch
ComprehensiveItems(gp, now) ==
  LET probes == IF gp.website # NULL THEN ProbeOutcomes ELSE {"none"}
  IN IF ~EnrichPlaceDataThrows(gp)
       THEN { Item(EnrichPlaceData(gp, p, now), FALSE, FALSE, ProbeCalls(gp, p)) : p \in probes }
     ELSE IF FormatGooglePlaceThrows(gp)
       THEN { Item(NULL, TRUE, TRUE, {}) }
     ELSE { Item(BasicFallbackRecord(gp, now), TRUE, FALSE, ProbeCalls(gp, p)) : p \in probes }

\* All outcomes of Promise.all(batch.map(...)), item by item
RECURSIVE FastModeBatch(_, _)
FastModeBatch(batch, now) ==
  IF batch = <<>> THEN { <<>> }
  ELSE { <<i>> \o rest : i \in FastModeItems(Head(batch), now),
                         rest \in FastModeBatch(Tail(batch), now) }

RECURSIVE FallbackBatch(_, _)
FallbackBatch(batch, now) ==
  IF batch = <<>> THEN { <<>> }
  ELSE { <<i>> \o rest : i \in FallbackItems(Head(batch), now),
                         rest \in FallbackBatch(Tail(batch), now) }

RECURSIVE ComprehensiveBatchOutcomes(_, _)
ComprehensiveBatchOutcomes(batch, now) ==
  IF batch = <<>> THEN { <<>> }
  ELSE { <<i>> \o rest : i \in ComprehensiveItems(Head(batch), now),
                         rest \in ComprehensiveBatchOutcomes(Tail(batch), now) }

\* Promise.all settles: it rejects when an item rejected, else the records are
\* pushed onto enrichedPlaces
SettleBatch(items, doneAfter) ==
  LET rejected == \E k \in 1..Len(items) : items[k].rejected
  IN /\ enrichThrew' = enrichThrew \cup
          { googlePlaces[enrichIdx + k].place_id : k \in { j \in 1..Len(items) : items[j].threw } }
     /\ netCalls' = netCalls \cup UNION { items[k].calls : k \in 1..Len(items) }
     /\ IF rejected
          THEN /\ spc' = "rejected"
               /\ enrichedPlaces' = enrichedPlaces
          ELSE /\ spc' = IF doneAfter THEN "done" ELSE spc
               /\ enrichedPlaces' = enrichedPlaces \o [k \in 1..Len(items) |-> items[k].place]

\* places.ts:832-852: fast mode, one Promise.all over every place
EnrichFastMode ==
  /\ spc = "searched"
  /\ isProduction
  /\ \E items \in FastModeBatch(googlePlaces, elapsed) : SettleBatch(items, TRUE)
  /\ UNCHANGED <<isProduction, searchQuery, maxResultsArg, pageMenu,
                 searchVariations, varIdx, allResults, seenPlaceIds, sqResults,
                 nextPageToken, pageCount, sqMaxResults, invalidRetries, rawResults,
                 finalResults, enhancedResults, detailIdx, googlePlaces, enrichIdx,
                 elapsed,
                 lastTextSearch,
                 detailsFailed, inFlightPeak>>
  /\ UNCHANGED notSearch

\* places.ts:826, 854-860: searchGooglePlaces has returned after some time and
\* comprehensive mode starts its batch loop
StartComprehensive ==
  /\ spc = "searched"
  /\ ~isProduction
  /\ spc' = "enrich"
  /\ enrichIdx' = 0
  /\ \E d \in SearchDurations : elapsed' = d
  /\ UNCHANGED <<isProduction, searchQuery, maxResultsArg, pageMenu,
                 searchVariations, varIdx, allResults, seenPlaceIds, sqResults,
                 nextPageToken, pageCount, sqMaxResults, invalidRetries, rawResults,
                 finalResults, enhancedResults, detailIdx, googlePlaces,
                 enrichedPlaces, netCalls, enrichThrew,
                 lastTextSearch,
                 detailsFailed, inFlightPeak>>
  /\ UNCHANGED notSearch

\* places.ts:862-870: the time limit is exceeded at a batch boundary; the
\* remaining places are enriched by enrichPlaceDataFast and the loop ends
TimeLimitFallback ==
  /\ spc = "enrich"
  /\ enrichIdx < Len(googlePlaces)
  /\ elapsed > TimeLimit
  /\ \E items \in FallbackBatch(Drop(googlePlaces, enrichIdx), elapsed) :
       SettleBatch(items, TRUE)
  /\ UNCHANGED <<isProduction, searchQuery, maxResultsArg, pageMenu,
                 searchVariations, varIdx, allResults, seenPlaceIds, sqResults,
                 nextPageToken, pageCount, sqMaxResults, invalidRetries, rawResults,
                 finalResults, enhancedResults, detailIdx, googlePlaces, enrichIdx,
                 elapsed,
                 lastTextSearch,
                 detailsFailed, inFlightPeak>>
  /\ UNCHANGED notSearch

\* places.ts:872-898: one comprehensive batch, awaited together
ComprehensiveBatch ==
  /\ spc = "enrich"
  /\ enrichIdx < Len(googlePlaces)
  /\ ~(elapsed > TimeLimit)
  /\ LET batch == BatchOf(googlePlaces, enrichIdx, EnrichBatchSize)
     IN /\ \E items \in ComprehensiveBatchOutcomes(batch, elapsed) :
             SettleBatch(items, FALSE)
        /\ inFlightPeak' = [inFlightPeak EXCEPT !.comprehensive = Max(@, Len(batch))]
  /\ enrichIdx' = enrichIdx + EnrichBatchSize
  /\ \E d \in BatchDurations : elapsed' = elapsed + d
  /\ UNCHANGED <<isProduction, searchQuery, maxResultsArg, pageMenu,
                 searchVariations, varIdx, allResults, seenPlaceIds, sqResults,
                 nextPageToken, pageCount, sqMaxResults, invalidRetries, rawResults,
                 finalResults, enhancedResults, detailIdx, googlePlaces,
                 lastTextSearch,
                 detailsFailed>>
  /\ UNCHANGED notSearch

\* places.ts:860, 901-903: the batch loop ends; enrichedPlaces is returned
FinishComprehensive ==
  /\ spc = "enrich"
  /\ enrichIdx >= Len(googlePlaces)
  /\ spc' = "done"
  /\ UNCHANGED <<isProduction, searchQuery, maxResultsArg, pageMenu,
                 searchVariations, varIdx, allResults, seenPlaceIds, sqResults,
                 nextPageToken, pageCount, sqMaxResults, invalidRetries, rawResults,
                 finalResults, enhancedResults, detailIdx, googlePlaces,
                 enrichedPlaces, enrichIdx, elapsed, netCalls, enrichThrew,
                 lastTextSearch,
                 detailsFailed, inFlightPeak>>
  /\ UNCHANGED notSearch

\* route.ts:19: maxResults = 20
DefaultMaxResults == 20

\* the pages the provider answers with in SpecEnhanced
EnhancedPages ==
  { <<1, 2>>, <<1, 5, 3>>, <<2, 4>>, <<1, 2, 6, 7, 8, 3>>,
    <<1, 2, 6, 7, 8, 9, 10, 11, 12, 3, 5>> }

\* A call searchGooglePlacesEnhanced(query, maxResults) from the search route
EnhancedInit ==
  /\ isProduction \in BOOLEAN
  /\ searchQuery = ShortQuery
  /\ maxResultsArg \in {DefaultMaxResults, 2}
  /\ pageMenu = EnhancedPages
  /\ spc = "start"
  /\ searchVariations = <<>>
  /\ varIdx = 0
  /\ allResults = <<>>
  /\ seenPlaceIds = {}
  /\ sqResults = <<>>
  /\ nextPageToken = FALSE
  /\ pageCount = 0
  /\ sqMaxResults = 0
  /\ invalidRetries = 0
  /\ rawResults = <<>>
  /\ finalResults = <<>>
  /\ enhancedResults = <<>>
  /\ detailIdx = 0
  /\ googlePlaces = <<>>
  /\ enrichedPlaces = <<>>
  /\ enrichIdx = 0
  /\ elapsed = 0
  /\ netCalls = {}
  /\ enrichThrew = {}
  /\ lastTextSearch = NoRequest
  /\ detailsFailed = {}
  /\ inFlightPeak = NoneInFlight

EnhancedNext ==
  \/ BeginSearch
  \/ StartVariation
  \/ FetchPage
  \/ FinishVariations
  \/ EnhanceBatch
  \/ FinishEnhance
  \/ EnrichFastMode
  \/ StartComprehensive
  \/ TimeLimitFallback
  \/ ComprehensiveBatch
  \/ FinishComprehensive

\* a record carries the results of an enrichment function
IsEnriched(p) ==
  \/ p.enrichment_level = "fast" /\ p.revenue # NULL /\ p.last_enriched_at # NoNumber
  \/ p.enrichment_level = "enhanced" /\ p.website_status # NULL /\ p.last_enriched_at # NoNumber

\* a record carries only the fields of formatGooglePlace
IsDegraded(p) ==
  /\ p.enrichment_level \in {"basic", "fast"}
  /\ p.revenue = NULL /\ p.website_status = NULL /\ p.last_enriched_at = NoNumber

\* C8: when the enrichment of a record throws, in fast mode, in a comprehensive
\* batch or in the time-limit fallback, searchGooglePlacesEnhanced does not
\* reject: the failing record is returned with its basic data and every other
\* record is returned enriched. Stated for result lists whose records
\* formatGooglePlace accepts, so that the catch handlers themselves succeed.
C8_EnrichmentFailureIsolated ==
  (/\ enrichThrew # {}
   /\ \A k \in 1..Len(googlePlaces) : ~FormatGooglePlaceThrows(googlePlaces[k])) =>
    /\ spc # "rejected"
    /\ spc = "done" =>
         \A k \in 1..Len(enrichedPlaces) :
           IF enrichedPlaces[k].place_id \in enrichThrew
             THEN IsDegraded(enrichedPlaces[k])
             ELSE IsEnriched(enrichedPlaces[k])

\* C9: in production no network request other than the text-search page
\* requests is issued, and every returned record has enrichment_level 'fast'.
C9_ProductionFastOnly ==
  isProduction =>
    /\ netCalls \subseteq {"textsearch"}
    /\ spc = "done" =>
         \A k \in 1..Len(enrichedPlaces) : enrichedPlaces[k].enrichment_level = "fast"

C9_Witness ==
  /\ isProduction
  /\ spc = "done"
  /\ Len(enrichedPlaces) = 3
  /\ enrichThrew = {5, 3}
  /\ netCalls = {"textsearch"}

\* places.ts:862-870: the comprehensive loop has left through the time-limit
\* branch: the limit is exceeded, places were left over, and every batch
\* before them had been pushed
FallbackTaken ==
  /\ ~isProduction
  /\ spc \in {"done", "rejected"}
  /\ elapsed > TimeLimit
  /\ enrichIdx < Len(googlePlaces)
  /\ Len(enrichedPlaces) >= enrichIdx

\* C14: when comprehensive mode finds the time limit exceeded at a batch
\* boundary, the call returns one record per place: the records of the batches
\* completed before keep their comprehensive results (enrichment_level
\* 'enhanced', or 'basic' where enrichPlaceData threw) and every later record
\* is enriched by the fast path (enrichment_level 'fast').
C14_TimeLimitFallsBackToFast ==
  FallbackTaken =>
    /\ spc = "done"
    /\ Len(enrichedPlaces) = Len(googlePlaces)
    /\ \A k \in 1..Len(enrichedPlaces) :
         /\ enrichedPlaces[k].place_id = googlePlaces[k].place_id
         /\ enrichedPlaces[k].enrichment_level =
              IF k > enrichIdx THEN "fast"
              ELSE IF googlePlaces[k].place_id \in enrichThrew THEN "basic" ELSE "enhanced"

\* ------------------------------------------------------------------------
\* The places table: cache reads and upserts of the two search routes
\* (route.ts:7-193 and 200-378, schema.sql:16-29)
\* ------------------------------------------------------------------------

\* the place ids whose persists are counted
StoreIds == {1, 2, 3, 5}

\* bound on the number of times the clock advances
MaxTicks == 1
\* bound on the number of requests and enrichment passes handled
MaxRequests == 2
\* the steps the clock advances by, in minutes: 23h59m and 24h01m
TickSteps == {1439, 1441}

\* route.ts:59: INTERVAL '24 hours', in minutes
FreshMinutes == 1440
\* route.ts:48: searchQuery.length > 10
CacheMinQueryLength == 10
\* route.ts:254: LIMIT 60
FilterCacheLimit == 60

\* the requests explored
StoreQueries == {"Springfield", "acme", "pizza llc 1 main"}
MaxResultsArgs == {1, 20}

\* text ILIKE '%pattern%', and LOWER(text) LIKE LOWER('%pattern%')
Like(text, pattern) == Includes(ToLowerCase(text), ToLowerCase(pattern))

\* route.ts:57: CONCAT(name, ' ', COALESCE(address, ''), ' ', COALESCE(category, ''))
SearchableText(r) ==
  Chars(r.name) \o <<" ">> \o Chars(r.address) \o <<" ">> \o Chars(r.category)

\* route.ts:57-58: the text condition of the search route's cache read
CacheMatches(r, q) == Like(SearchableText(r), Chars(q))

\* route.ts:249-253: the text condition of the filter variant's cache read
FilterMatches(r, q) ==
  \E col \in {r.name, r.address, r.category, r.industry} :
    col # NULL /\ Like(Chars(col), Chars(q))

\* ORDER BY stored_at DESC: every order of the rows the clause allows
OrderByStoredAtDesc(rows) ==
  { s \in [1..Cardinality(rows) -> rows] :
      \A i, j \in 1..Cardinality(rows) :
        i < j => (s[i] # s[j] /\ s[i].stored_at >= s[j].stored_at) }

\* route.ts:55-64: the rows the search route's cache read may return
CachedRows(q, limit, now) ==
  { Take(s, limit) :
      s \in OrderByStoredAtDesc({ r \in placesTable :
                                    CacheMatches(r, q) /\ r.stored_at > now - FreshMinutes }) }

\* route.ts:246-257: the rows the filter variant's cache read may return
FilterCachedRows(q) ==
  { Take(s, FilterCacheLimit) :
      s \in OrderByStoredAtDesc({ r \in placesTable : FilterMatches(r, q) }) }

\* schema.sql:18-19: name TEXT NOT NULL, address TEXT NOT NULL
ViolatesNotNull(place) == place.name = NULL \/ place.address = NULL

\* route.ts:96-144: INSERT ... ON CONFLICT (place_id) DO UPDATE SET <every
\* column> = EXCLUDED.<column>, stored_at = NOW()
SearchUpsert(table, place, now) ==
  LET old == { r \in table : r.place_id = place.place_id }
      row(updatedAt) == [place EXCEPT !.stored_at = now] @@ [updated_at |-> updatedAt]
  IN IF old = {} THEN table \cup { row(NoNumber) }
     ELSE (table \ old) \cup { row(r.updated_at) : r \in old }

\* route.ts:284-333: INSERT without stored_at (schema.sql:27: DEFAULT NOW())
\* ... ON CONFLICT (place_id) DO UPDATE SET <every column> = EXCLUDED.<column>,
\* updated_at = NOW()
FilterUpsert(table, place, now) ==
  LET old == { r \in table : r.place_id = place.place_id }
  IN IF old = {}
       THEN table \cup { [place EXCEPT !.stored_at = now] @@ [updated_at |-> NoNumber] }
       ELSE (table \ old) \cup
              { [place EXCEPT !.stored_at = r.stored_at] @@ [updated_at |-> now] : r \in old }

\* route.ts:95-157: the places the search route's loop saves: the first failing
\* statement ends the loop
RECURSIVE SavedPrefix(_, _)
SavedPrefix(places, dbUp) ==
  IF places = <<>> \/ ~dbUp \/ ViolatesNotNull(Head(places)) THEN <<>>
  ELSE <<Head(places)>> \o SavedPrefix(Tail(places), dbUp)

\* route.ts:337-359: the places the filter variant's loop saves: a failing
\* statement is skipped
SavedEach(places, dbUp) ==
  SelectSeq(places, LAMBDA p : dbUp /\ ~ViolatesNotNull(p))

RECURSIVE SearchUpsertAll(_, _, _)
SearchUpsertAll(table, places, now) ==
  IF places = <<>> THEN table
  ELSE SearchUpsertAll(SearchUpsert(table, Head(places), now), Tail(places), now)

RECURSIVE FilterUpsertAll(_, _, _)
FilterUpsertAll(table, places, now) ==
  IF places = <<>> THEN table
  ELSE FilterUpsertAll(FilterUpsert(table, Head(places), now), Tail(places), now)

\* what searchGooglePlacesEnhanced may resolve to when a route calls it
FreshResults(now) ==
  LET fast(id) == EnrichPlaceDataFast(Stub(id), now, 5)
      full(id) == EnrichPlaceData(MergeDetails(Stub(id), Details(id)), "ok_contact", now)
  IN IF isProduction
       THEN { <<>>, <<fast(1)>>, <<fast(2), FastFallbackRecord(Stub(3), now), fast(1)>> }
       ELSE { <<>>, <<full(1)>>, <<full(2), BasicFallbackRecord(Stub(5), now), full(1)>> }

\* places.ts:411 and 768-769: the exceptions searchGooglePlacesEnhanced rejects
\* with (a result without formatted_address, a result whose types[0] is not a
\* string)
RawExceptions ==
  { "TypeError: Cannot read properties of undefined (reading 'split')",
    "TypeError: types[0]?.replace is not a function" }

\* searchGooglePlacesEnhanced rejects or resolves. When every text-search
\* request fails, searchGooglePlaces logs each failure (places.ts:285-288) and
\* resolves to the empty list.
SearchOutcomes(now) ==
  { [threw |-> TRUE, error |-> e, places |-> <<>>, outage |-> FALSE] : e \in RawExceptions } \cup
  { [threw |-> FALSE, error |-> NULL, places |-> p, outage |-> FALSE] : p \in FreshResults(now) }
    \cup { [threw |-> FALSE, error |-> NULL, places |-> <<>>, outage |-> TRUE] }

\* no request handled yet. The members of the response body are route, status,
\* places, cached, error, warning and results; the others record the request
\* (query, limit, forceFresh, request), the time (at) and what the handler did
\* (kind, calls, found, dbUp, outage, sources)
NoResponse ==
  [route |-> "none", status |-> 0, kind |-> "none", places |-> <<>>, cached |-> FALSE,
   at |-> 0, query |-> "", limit |-> 0, error |-> NULL, warning |-> NULL,
   results |-> <<>>, request |-> <<>>, forceFresh |-> FALSE, calls |-> <<>>,
   found |-> <<>>, dbUp |-> TRUE, outage |-> FALSE, sources |-> {}]

\* NextResponse.json(body, {status}): no handler sets a warning member
Respond(route, status, kind, places, cached, q, limit) ==
  [NoResponse EXCEPT !.route = route, !.status = status, !.kind = kind, !.places = places,
                     !.cached = cached, !.at = clock, !.query = q, !.limit = limit]

\* the requests a handler receives: a well-formed one, one without a session,
\* one without the required member, one whose body is not JSON
RequestKinds == {"ok", "unauthenticated", "no_query", "bad_body"}

SearchExposesException(searchError) == searchError
\* route.ts:169-174: the body sent when searchGooglePlacesEnhanced rejects
SearchFailedMessage(searchError) == "Search failed. Please try again."

\* route.ts:186-191, 371-377 and 466-472: the body sent by a handler's outer catch
InternalErrorMessage(route) ==
  IF route = "filter" THEN "Failed to search places" ELSE "Internal server error"

\* route.ts:38-41, 213-216 and 399-403: the body sent when the request lacks
\* its required member
MissingInputMessage(route) ==
  CASE route = "search" -> "Search query or parameters are required"
    [] route = "filter" -> "Search query is required"
    [] OTHER -> "Place IDs array is required"

\* route.ts:10-41, 202-217 and 389-404: the responses sent before any work
EarlyReturn(route, req) ==
  CASE req = "unauthenticated" ->
         [Respond(route, 401, "error", <<>>, FALSE, "", 0) EXCEPT
            !.error = "Authentication required"]
    [] req = "no_query" ->
         [Respond(route, 400, "error", <<>>, FALSE, "", 0) EXCEPT
            !.error = MissingInputMessage(route)]
    [] OTHER ->
         [Respond(route, 500, "error", <<>>, FALSE, "", 0) EXCEPT
            !.error = InternalErrorMessage(route)]

\* the persists of a handler are counted
CountPersists(saved) ==
  LET ids == { saved[k].place_id : k \in 1..Len(saved) }
  IN /\ persistCount' = [id \in StoreIds |->
                           IF id \in ids /\ persistCount[id] < 2
                             THEN persistCount[id] + 1 ELSE persistCount[id]]
     /\ lastPersistAt' = [id \in StoreIds |->
                            IF id \in ids THEN clock ELSE lastPersistAt[id]]

StoreIdle ==
  /\ clock = 0
  /\ ticks = 0
  /\ handled = 0
  /\ placesTable = {}
  /\ response = NoResponse
  /\ persistCount = [id \in StoreIds |-> 0]
  /\ lastPersistAt = [id \in StoreIds |-> NoNumber]

\* time passes between two requests
Tick ==
  /\ ticks < MaxTicks
  /\ 0 < handled /\ handled < MaxRequests
  /\ ticks' = ticks + 1
  /\ \E d \in TickSteps : clock' = clock + d
  /\ UNCHANGED <<handled, placesTable, response, persistCount, lastPersistAt>>
  /\ UNCHANGED notStore
  /\ UNCHANGED writerVars

UseCacheDespiteForceFresh(forceFresh, q) == Len(Chars(q)) > CacheMinQueryLength
\* route.ts:48: if (!forceFresh && searchQuery.length > 10)
UseCache(forceFresh, q) == ~forceFresh /\ Len(Chars(q)) > CacheMinQueryLength

\* route.ts:7-193: POST of the search route
SearchRoute ==
  /\ handled < MaxRequests
  /\ handled' = handled + 1
  /\ \E req \in RequestKinds :
       IF req # "ok"
         THEN /\ response' = EarlyReturn("search", req)
              /\ UNCHANGED <<placesTable, persistCount, lastPersistAt>>
       ELSE
       \E q \in StoreQueries, forceFresh \in BOOLEAN, maxResults \in MaxResultsArgs,
            dbUp \in BOOLEAN :
         LET useCache == UseCache(forceFresh, q)
             read == IF useCache THEN <<"cache">> ELSE <<>>
             Sent(r, calls) ==
               [r EXCEPT !.forceFresh = forceFresh, !.dbUp = dbUp, !.calls = calls]
         IN \E cachedRows \in (IF useCache /\ dbUp THEN CachedRows(q, maxResults, clock)
                               ELSE { <<>> }) :
              IF Len(cachedRows) > 0
                THEN /\ response' = Sent(Respond("search", 200, "cache",
                                                 Take(cachedRows, maxResults),
                                                 ~forceFresh, q, maxResults), read)
                     /\ UNCHANGED <<placesTable, persistCount, lastPersistAt>>
                ELSE \E outcome \in SearchOutcomes(clock) :
                       IF outcome.threw
                         THEN /\ response' =
                                   Sent([Respond("search", 500, "error", <<>>, FALSE, q,
                                                 maxResults)
                                           EXCEPT !.error = SearchFailedMessage(outcome.error)],
                                        read \o <<"provider">>)
                              /\ UNCHANGED <<placesTable, persistCount, lastPersistAt>>
                         ELSE LET saved == SavedPrefix(outcome.places, dbUp)
                              IN /\ placesTable' = SearchUpsertAll(placesTable, saved, clock)
                                 /\ CountPersists(saved)
                                 /\ response' =
                                      Sent([Respond("search", 200, "fresh",
                                                    Take(outcome.places, maxResults),
                                                    ~forceFresh /\ Len(outcome.places) > 0,
                                                    q, maxResults)
                                              EXCEPT !.found = outcome.places,
                                                     !.outage = outcome.outage],
                                           read \o <<"provider">>)
  /\ UNCHANGED <<clock, ticks>>
  /\ UNCHANGED notStore
  /\ UNCHANGED writerVars

\* route.ts:200-378: POST of the filter variant of the search route
FilterSearchRoute ==
  /\ handled < MaxRequests
  /\ handled' = handled + 1
  /\ \E req \in RequestKinds :
       IF req # "ok"
         THEN /\ response' = EarlyReturn("filter", req)
              /\ UNCHANGED <<placesTable, persistCount, lastPersistAt>>
       ELSE
       \E q \in StoreQueries, forceRefresh \in BOOLEAN, dbUp \in BOOLEAN :
         LET read == IF ~forceRefresh THEN <<"cache">> ELSE <<>>
             Sent(r, calls) ==
               [r EXCEPT !.forceFresh = forceRefresh, !.dbUp = dbUp, !.calls = calls]
             Failed == [Respond("filter", 500, "error", <<>>, FALSE, q, FilterCacheLimit)
                          EXCEPT !.error = InternalErrorMessage("filter")]
         IN IF ~forceRefresh /\ ~dbUp
              THEN /\ response' = Sent(Failed, read)
                   /\ UNCHANGED <<placesTable, persistCount, lastPersistAt>>
            ELSE \E cachedRows \in (IF ~forceRefresh THEN FilterCachedRows(q) ELSE { <<>> }) :
                 IF Len(cachedRows) > 0
                   THEN /\ response' = Sent(Respond("filter", 200, "cache", cachedRows, TRUE, q,
                                                    FilterCacheLimit), read)
                        /\ UNCHANGED <<placesTable, persistCount, lastPersistAt>>
                   ELSE \E outcome \in SearchOutcomes(clock) :
                          IF outcome.threw
                            THEN /\ response' = Sent(Failed, read \o <<"provider">>)
                                 /\ UNCHANGED <<placesTable, persistCount, lastPersistAt>>
                            ELSE LET saved == SavedEach(outcome.places, dbUp)
                                 IN /\ placesTable' = FilterUpsertAll(placesTable, saved, clock)
                                    /\ CountPersists(saved)
                                    /\ response' =
                                         Sent([Respond("filter", 200, "fresh", outcome.places,
                                                       FALSE, q, FilterCacheLimit)
                                                 EXCEPT !.found = outcome.places,
                                                        !.outage = outcome.outage],
                                              read \o <<"provider">>)
  /\ UNCHANGED <<clock, ticks>>
  /\ UNCHANGED notStore
  /\ UNCHANGED writerVars

\* ------------------------------------------------------------------------
\* The enrich route (route.ts:386-717) and enrichCompanyData (part_010)
\* ------------------------------------------------------------------------

CoalesceOverwrites(new, old) == new
\* COALESCE($n, column) for a string or boolean parameter
Coalesce(new, old) == IF new # NULL THEN new ELSE old
\* COALESCE($n, column) for a number or timestamp parameter
CoalesceNumber(new, old) == IF new # NoNumber THEN new ELSE old

\* what The Companies API answers for a domain: no answer (no key, HTTP error,
\* exception), an answer without the fields read, an answer with all of them
ApiOutcomes == {"none", "empty", "full"}

\* what the HEAD request and the HTML request of route.ts:551-640 meet
SiteOutcomes ==
  { [head |-> "active", html |-> "email_form"],
    [head |-> "redirected", html |-> "form_down"],
    [head |-> "inactive", html |-> "none"],
    [head |-> "broken", html |-> "none"] }

\* route.ts:538-540 and part_010:176-177, on the digits of the phone number
PhoneIsValid(phone) ==
  LET cleaned == PhoneDigits(phone)
  IN \/ Len(cleaned) = 10 /\ cleaned[1] # 0 /\ cleaned[1] # 1
     \/ Len(cleaned) >= 7 /\ Len(cleaned) <= 15

\* route.ts:484-664: the enrichedData object enrichPlace returns for a row
EnrichPlace(place, api, site, now) ==
  LET hasSite == place.website # NULL
      apiFull == hasSite /\ api = "full"
      apiEmail == IF apiFull THEN "info@acme.test" ELSE NULL
      probed == hasSite /\ site.head # "broken"
      htmlRead == probed /\ apiEmail = NULL /\ site.html # "none"
      siteEmail == IF htmlRead /\ site.html = "email_form" THEN "contact@acme.test" ELSE NULL
      email == IF apiEmail # NULL THEN apiEmail ELSE siteEmail
  IN [industry |-> IF apiFull THEN "Software" ELSE NULL,
      revenue |-> IF apiFull THEN "$1M-$10M" ELSE NULL,
      employee_count |-> IF apiFull THEN "50-200" ELSE NULL,
      year_founded |-> IF apiFull THEN 2010 ELSE NoNumber,
      company_age |-> IF apiFull THEN CurrentYear - 2010 ELSE NoNumber,
      email |-> email,
      email_verified |-> IF email # NULL THEN "true" ELSE NULL,
      email_verified_at |-> IF email # NULL THEN now ELSE NoNumber,
      phone_verified |-> IF place.phone # NULL THEN BoolStr(PhoneIsValid(place.phone))
                         ELSE NULL,
      phone_verified_at |-> IF place.phone # NULL THEN now ELSE NoNumber,
      website_status |-> IF hasSite THEN site.head ELSE NULL,
      website_verified_at |-> IF hasSite THEN now ELSE NoNumber,
      contact_form_url |-> IF htmlRead THEN "https://acme.test/contact" ELSE NULL,
      contact_form_working |-> IF htmlRead THEN BoolStr(site.html = "email_form") ELSE NULL,
      contact_form_verified_at |-> IF htmlRead THEN now ELSE NoNumber,
      enrichment_level |-> "enhanced",
      last_enriched_at |-> now]

\* route.ts:667-717: UPDATE places SET <column> = COALESCE($n, <column>), ...,
\* updated_at = NOW() WHERE place_id = $1
UpdatePlaceWithEnrichment(row, data, now) ==
  [row EXCEPT
     !.industry = Coalesce(data.industry, @),
     !.revenue = Coalesce(data.revenue, @),
     !.employee_count = Coalesce(data.employee_count, @),
     !.year_founded = CoalesceNumber(data.year_founded, @),
     !.company_age = CoalesceNumber(data.company_age, @),
     !.email = Coalesce(data.email, @),
     !.email_verified = Coalesce(data.email_verified, @),
     !.email_verified_at = CoalesceNumber(data.email_verified_at, @),
     !.phone_verified = Coalesce(data.phone_verified, @),
     !.phone_verified_at = CoalesceNumber(data.phone_verified_at, @),
     !.website_status = Coalesce(data.website_status, @),
     !.website_verified_at = CoalesceNumber(data.website_verified_at, @),
     !.contact_form_url = Coalesce(data.contact_form_url, @),
     !.contact_form_working = Coalesce(data.contact_form_working, @),
     !.contact_form_verified_at = CoalesceNumber(data.contact_form_verified_at, @),
     !.enrichment_level = Coalesce(data.enrichment_level, @),
     !.last_enriched_at = CoalesceNumber(data.last_enriched_at, @),
     !.updated_at = now]

\* the place_ids arrays the enrich route is called with; place 7 is never stored
EnrichRequests == { <<1>>, <<7, 2>> }

\* the answers the external services can give that enrichPlace reads for a row:
\* a row without a website issues no request
EnrichChoices(row) ==
  IF row.website = NULL THEN { [api |-> "none", site |-> [head |-> "broken", html |-> "none"]] }
  ELSE [api : ApiOutcomes, site : SiteOutcomes]

NotFoundAlsoEnriched(placeId) ==
  [place_id |-> placeId, status |-> "enriched", error |-> "Place not found"]
\* route.ts:419-421: the outcome of a place id without a row
NotFoundOutcome(placeId) == [place_id |-> placeId, error |-> "Place not found"]

\* route.ts:432-435: the outcome of a place id whose query, enrichment or
\* update throws
FailedOutcome(placeId) == [place_id |-> placeId, error |-> "Enrichment failed"]

\* route.ts:431: the outcome of a place id that was enriched and updated
EnrichedOutcome(placeId, enrichedData) ==
  [place_id |-> placeId, status |-> "enriched", data |-> enrichedData]

\* route.ts:412-451 for each place id of the request in turn: the row is read,
\* enriched and updated; a place id without a row, and one whose statement
\* throws, is reported and its row left alone. The set of [table, results]
\* pairs the request can end with. (The callback catches every exception, so
\* no promise of a batch is rejected.)
RECURSIVE EnrichEach(_, _, _)
EnrichEach(table, ids, now) ==
  IF ids = <<>> THEN { [table |-> table, results |-> <<>>] }
  ELSE LET placeId == Head(ids)
           rows == { r \in table : r.place_id = placeId }
           Then(tbl, outcome) ==
             { [table |-> rest.table, results |-> <<outcome>> \o rest.results] :
                 rest \in EnrichEach(tbl, Tail(ids), now) }
       IN Then(table, FailedOutcome(placeId)) \cup
          (IF rows = {} THEN Then(table, NotFoundOutcome(placeId))
           ELSE UNION { UNION { LET enrichedData == EnrichPlace(r, c.api, c.site, now)
                                IN Then((table \ {r}) \cup
                                          { UpdatePlaceWithEnrichment(r, enrichedData, now) },
                                        EnrichedOutcome(placeId, enrichedData))
                                  : c \in EnrichChoices(r) }
                          : r \in rows })

\* route.ts:386-473: POST of the enrich route
EnrichRoute ==
  /\ handled < MaxRequests
  /\ handled' = handled + 1
  /\ \E req \in RequestKinds :
       IF req # "ok"
         THEN /\ response' = EarlyReturn("enrich", req)
              /\ UNCHANGED placesTable
         ELSE \E ids \in EnrichRequests :
                \E end \in EnrichEach(placesTable, ids, clock) :
                  /\ placesTable' = end.table
                  /\ response' = [Respond("enrich", 200, "enriched", <<>>, FALSE, "", Len(ids))
                                    EXCEPT !.request = ids, !.results = end.results]
  /\ UNCHANGED <<clock, ticks, persistCount, lastPersistAt>>
  /\ UNCHANGED notStore
  /\ UNCHANGED writerVars

\* part_010:50-160: which of the three company-data sources returned data
SourceAnswers == [companies_api : BOOLEAN, clearbit : BOOLEAN, verifik : BOOLEAN]

\* part_010:334-373: the keys of dataSources after the three sources were asked;
\* the first two are asked only for a place with a website
DataSources(place, answers) ==
  { src \in {"companies_api", "clearbit", "verifik"} :
      \/ src = "companies_api" /\ place.website # NULL /\ answers.companies_api
      \/ src = "clearbit" /\ place.website # NULL /\ answers.clearbit
      \/ src = "verifik" /\ answers.verifik }

\* part_010:77-86: what enrichWithCompaniesAPI reports for the modelled domain
CompaniesApiData ==
  [industry |-> "Software", revenue |-> "$1M-$10M", employee_count |-> "50-200",
   year_founded |-> 2001]

\* part_010:116-126: what enrichWithClearbit reports for the modelled domain
ClearbitData ==
  [industry |-> "Internet", revenue |-> "$2.5M", employee_count |-> "40",
   year_founded |-> 1999]

\* part_010:326-438: the record enrichCompanyData returns for a place
EnrichCompanyData(place, answers, now) ==
  LET dataSources == DataSources(place, answers)
      companies == "companies_api" \in dataSources
      clearbit == "clearbit" \in dataSources
      revenue == IF companies THEN CompaniesApiData.revenue
                 ELSE IF clearbit /\ place.revenue = NULL THEN ClearbitData.revenue
                 ELSE place.revenue
      employees == IF companies THEN CompaniesApiData.employee_count
                   ELSE IF clearbit /\ place.employee_count = NULL
                     THEN ClearbitData.employee_count
                   ELSE place.employee_count
  IN [place EXCEPT
        !.revenue = revenue,
        !.employee_count = employees,
        !.phone_verified = "true",
        !.phone_verified_at = now,
        !.email_verified = "true",
        !.email_verified_at = now,
        !.website_status = "active",
        !.website_verified_at = now,
        !.contact_form_working = "false",
        !.contact_form_verified_at = now,
        !.company_age = IF place.year_founded # NoNumber /\ place.year_founded # 0
                          THEN CurrentYear - place.year_founded ELSE @,
        !.enrichment_level = IF dataSources # {} THEN "enhanced" ELSE "basic",
        !.last_enriched_at = now]

\* part_010:441-508: UPDATE places SET <column> = $n, ..., updated_at = NOW()
UpdatePlaceWithEnrichedData(row, enriched, now) ==
  [row EXCEPT
     !.industry = enriched.industry,
     !.revenue = enriched.revenue,
     !.employee_count = enriched.employee_count,
     !.year_founded = enriched.year_founded,
     !.company_age = enriched.company_age,
     !.email = enriched.email,
     !.email_verified = enriched.email_verified,
     !.email_verified_at = enriched.email_verified_at,
     !.phone_verified = enriched.phone_verified,
     !.phone_verified_at = enriched.phone_verified_at,
     !.website_status = enriched.website_status,
     !.website_verified_at = enriched.website_verified_at,
     !.contact_form_url = enriched.contact_form_url,
     !.contact_form_working = enriched.contact_form_working,
     !.contact_form_verified_at = enriched.contact_form_verified_at,
     !.enrichment_level = enriched.enrichment_level,
     !.last_enriched_at = enriched.last_enriched_at,
     !.updated_at = now]

\* part_010:326-508: a stored place is enriched by enrichCompanyData and written
\* back by updatePlaceWithEnrichedData
EnrichCompanyPass ==
  /\ handled < MaxRequests
  /\ handled' = handled + 1
  /\ \E r \in placesTable, answers \in SourceAnswers :
       /\ placesTable' = (placesTable \ {r}) \cup
            { UpdatePlaceWithEnrichedData(r, EnrichCompanyData(r, answers, clock), clock) }
       /\ response' = [Respond("enrichCompanyData", 200, "enriched", <<>>, FALSE, "", 1)
                         EXCEPT !.request = <<r.place_id>>,
                                !.sources = DataSources(r, answers)]
  /\ UNCHANGED <<clock, ticks, persistCount, lastPersistAt>>
  /\ UNCHANGED notStore
  /\ UNCHANGED writerVars

StoreNext ==
  \/ Tick
  \/ SearchRoute
  \/ FilterSearchRoute
  \/ EnrichRoute
  \/ EnrichCompanyPass

\* rank of an enrichment level: basic < fast < enhanced
LevelRank(level) ==
  CASE level = "enhanced" -> 2
    [] level = "fast" -> 1
    [] OTHER -> 0

\* C6: once the same place_id has been persisted twice through a search
\* route's upsert, the places table holds exactly one row for it and that row's
\* stored_at is the time of the latest of those writes.
C6_UpsertOneRowLatestStoredAt ==
  \A id \in StoreIds :
    persistCount[id] >= 2 =>
      /\ Cardinality({ r \in placesTable : r.place_id = id }) = 1
      /\ \A r \in placesTable : r.place_id = id => r.stored_at = lastPersistAt[id]

\* C7: a cache read returns only matching rows stored less than 24 hours before
\* the read, ordered newest stored_at first and no more than the read's limit;
\* it returns a matching row that is 23h59m old and not one that is 24h01m old.
C7_CacheReadFreshWindow ==
  response.kind = "cache" =>
    /\ Len(response.places) <= response.limit
    /\ \A k \in 1..Len(response.places) :
         /\ response.places[k].stored_at > response.at - FreshMinutes
         /\ response.places[k] \in placesTable
         /\ k > 1 => response.places[k - 1].stored_at >= response.places[k].stored_at
    /\ \A r \in placesTable :
         (/\ r.stored_at = response.at - (FreshMinutes - 1)
          /\ IF response.route = "search" THEN CacheMatches(r, response.query)
             ELSE FilterMatches(r, response.query)
          /\ Cardinality(placesTable) <= response.limit) =>
           \E k \in 1..Len(response.places) : response.places[k] = r

\* C10: the enrichment_level of a stored row never moves down the order
\* basic < fast < enhanced, whatever route or enrichment pass writes the row.
C10_EnrichmentLevelNeverRegresses ==
  [][\A r \in placesTable : \A n \in placesTable' :
       n.place_id = r.place_id =>
         LevelRank(n.enrichment_level) >= LevelRank(r.enrichment_level)]_vars

\* route.ts:670-687 and part_010:443-460: the text and boolean columns, and
\* the number columns, that an enrichment pass writes for business
\* intelligence and contact data
EnrichedTextColumns ==
  {"industry", "revenue", "employee_count", "email", "email_verified", "phone_verified",
   "website_status", "contact_form_url", "contact_form_working"}
EnrichedNumberColumns == {"year_founded", "company_age"}

\* the columns for which the pass recorded in resp got nothing for placeId:
\* the members of the enrich route's enrichedData that are absent, and revenue
\* and employee_count when neither company-data source of enrichCompanyData
\* answered
SilentColumns(resp, placeId) ==
  IF resp.route = "enrich"
    THEN { c \in EnrichedTextColumns :
             \A k \in 1..Len(resp.results) :
               (resp.results[k].place_id = placeId /\ "data" \in DOMAIN resp.results[k]) =>
                 resp.results[k].data[c] = NULL }
  ELSE IF resp.sources \cap {"companies_api", "clearbit"} = {}
    THEN {"revenue", "employee_count"}
  ELSE {}

C12_OutageServesCacheOrFails ==
  (response.route = "search" /\ response.outage) =>
    LET matches == { r \in placesTable : CacheMatches(r, response.query) }
    IN /\ matches # {} =>
            /\ response.status = 200
            /\ response.warning # NULL
            /\ Len(response.places) > 0
            /\ \A k \in 1..Len(response.places) : response.places[k] \in matches
       /\ matches = {} => response.status >= 500
       /\ ~(response.status = 200 /\ response.places = <<>> /\ response.warning = NULL)

\* C13: after a search route has persisted the records of a fresh search over
\* a working connection, every record of the batch whose own upsert succeeds
\* has its row in the places table, whatever happened to the upserts of the
\* other records of the batch.
C13_FailedUpsertSparesSiblings ==
  (response.kind = "fresh" /\ response.dbUp) =>
    \A k \in 1..Len(response.found) :
      ~ViolatesNotNull(response.found[k]) =>
        \E r \in placesTable :
          /\ r.place_id = response.found[k].place_id
          /\ r.enrichment_level = response.found[k].enrichment_level
          /\ r.last_enriched_at = response.found[k].last_enriched_at

\* C15: the enrich route answers an array of place ids with status 200 and one
\* outcome per place id, in the order of the request; an outcome is either
\* {place_id, status: 'enriched', data} or {place_id, error}, never both; a
\* place id without a row gets an error outcome and the other ids of the
\* request are still processed.
C15_OneOutcomePerPlaceId ==
  (response.route = "enrich" /\ response.request # <<>>) =>
    /\ response.status = 200
    /\ Len(response.results) = Len(response.request)
    /\ \A k \in 1..Len(response.results) :
         LET outcome == response.results[k]
         IN /\ outcome.place_id = response.request[k]
            /\ \/ DOMAIN outcome = {"place_id", "status", "data"} /\ outcome.status = "enriched"
               \/ DOMAIN outcome = {"place_id", "error"}
            /\ (\A r \in placesTable : r.place_id # outcome.place_id) =>
                 "error" \in DOMAIN outcome

\* a request for an unknown place id and a stored one: the first is reported
\* as not found, the second is enriched
C15_Witness ==
  /\ response.route = "enrich"
  /\ response.request = <<7, 2>>
  /\ response.results[1] = NotFoundOutcome(7)
  /\ "data" \in DOMAIN response.results[2]
  /\ response.results[2].status = "enriched"
\* route.ts:13, 39, 171 and 189: the error bodies the search route can send
SearchRouteMessages ==
  { "Authentication required", "Search query or parameters are required",
    "Search failed. Please try again.", "Internal server error" }

\* C16: every response of the search route is either a result set (status 200,
\* a list of places that may be empty, no error member) or an error (no
\* places, one of the route's fixed messages), never both; the message of an
\* exception thrown by the provider search or the database is never sent.
C16_ResultSetOrFixedError ==
  response.route = "search" =>
    /\ \/ response.status = 200 /\ response.error = NULL
       \/ /\ response.status # 200
          /\ response.places = <<>>
          /\ response.error \in SearchRouteMessages
    /\ response.error \notin RawExceptions

\* the provider search rejected and the route answered with its fixed message
C16_Witness ==
  /\ response.route = "search"
  /\ response.calls = <<"cache", "provider">>
  /\ response.status = 500
  /\ response.error = "Search failed. Please try again."

\* the outcome of one search-route request for query q, given whether the
\* handler is expected to consult the cache: a consulted cache with a fresh
\* matching row answers alone; otherwise the provider search follows the read
CacheThenProvider(consults, resp) ==
  LET fresh == { r \in placesTable :
                   CacheMatches(r, resp.query) /\ r.stored_at > clock - FreshMinutes }
  IN IF consults
       THEN IF fresh # {} /\ resp.dbUp
              THEN /\ resp.calls = <<"cache">>
                   /\ resp.status = 200
                   /\ Len(resp.places) > 0
                   /\ \A k \in 1..Len(resp.places) : resp.places[k] \in fresh
              ELSE /\ resp.calls = <<"cache", "provider">>
                   /\ resp.kind # "cache"
                   /\ resp.status = 500 => resp.error = "Search failed. Please try again."
       ELSE resp.calls = <<"provider">>

\* C17: a search with forceFresh = false reads the cache before any provider
\* call and answers from the cache alone when it holds a fresh match; an empty
\* read is followed by a provider search; a search with forceFresh = true
\* makes a provider search and no cache read.
C17_CacheBeforeProvider ==
  [][(handled' # handled /\ response'.route = "search" /\ response'.query # "") =>
       CacheThenProvider(~response'.forceFresh, response')]_vars

\* C17 as the code has it: the cache is read only when forceFresh = false and
\* the query is longer than 10 characters; a shorter query goes to the
\* provider without a cache read, like forceFresh = true.
C17_CacheBeforeProviderLongQuery ==
  [][(handled' # handled /\ response'.route = "search" /\ response'.query # "") =>
       CacheThenProvider(/\ ~response'.forceFresh
                         /\ Len(Chars(response'.query)) > CacheMinQueryLength,
                         response')]_vars

\* a search with forceFresh = false was answered from the cache alone
C17_Witness ==
  /\ response.route = "search"
  /\ ~response.forceFresh
  /\ response.kind = "cache"
  /\ response.calls = <<"cache">>
  /\ Len(response.places) > 0

Attempted(gp) ==
  [email |-> gp.website # NULL,
   phone |-> gp.formatted_phone_number # NULL,
   website |-> gp.website # NULL,
   contact_form |-> gp.website # NULL]

\* C23: after an enrichment pass each verification timestamp is newly set if
\* and only if that verification was attempted in the pass, whether or not it
\* succeeded. Stated for the records enrichPlaceData returns, which start with
\* no timestamps.
C23_TimestampIffAttempted ==
  \A k \in 1..Len(enrichedPlaces) :
    enrichedPlaces[k].enrichment_level = "enhanced" =>
      LET p == enrichedPlaces[k]
          tried == Attempted(googlePlaces[k])
      IN /\ (p.email_verified_at # NoNumber) <=> tried.email
         /\ (p.phone_verified_at # NoNumber) <=> tried.phone
         /\ (p.website_verified_at # NoNumber) <=> tried.website
         /\ (p.contact_form_verified_at # NoNumber) <=> tried.contact_form

\* the firmographic columns the company-data sources report, of the columns a
\* modelled row carries
FirmographicColumns == {"industry", "revenue", "employee_count", "year_founded"}

\* C24: after enrichCompanyData has merged its sources and the record was
\* written back, every firmographic column holds the Companies API value when
\* the Companies API answered, and the Clearbit value when only Clearbit did.
C24_SourcePriorityMerge ==
  response.route = "enrichCompanyData" =>
    \A r \in placesTable :
      r.place_id = response.request[1] =>
        \A c \in FirmographicColumns :
          /\ "companies_api" \in response.sources => r[c] = CompaniesApiData[c]
          /\ (response.sources \cap {"companies_api", "clearbit"} = {"clearbit"}) =>
               r[c] = ClearbitData[c]

\* C25: the list generateSearchVariations returns holds pairwise different
\* strings.
C25_NoRepeatedVariant ==
  variations # NULL =>
    \A i, j \in 1..Len(variations) : i < j => variations[i] # variations[j]

\* the values the claim allows for website_status
WebsiteStatuses == {"active", "inactive", "broken", "redirected", "unknown", "no_website"}

\* C26: the website_status of every record searchGooglePlacesEnhanced produces
\* is absent or one of active, inactive, broken, redirected, unknown,
\* no_website, whatever the website probe met.
C26_WebsiteStatusInDomain ==
  \A k \in 1..Len(enrichedPlaces) :
    enrichedPlaces[k].website_status \in WebsiteStatuses \cup {NULL}

\* ------------------------------------------------------------------------
\* Two overlapping requests that write the same place_id, statement by statement
\* ------------------------------------------------------------------------

Writers == {1, 2}

\* no row read, no column set yet
NoRow == [place_id |-> 0]

\* the place_id both requests write
SharedPlaceId == 1

\* What a request is about to write: a search request holds the records
\* searchGooglePlacesEnhanced returned to it (route.ts:86), an enrich request
\* the place_ids of its body (route.ts:395); the two requests got different
\* records for the shared place
WriterJobs(w) ==
  LET mine == IF w = 1
                THEN EnrichPlaceData(MergeDetails(Stub(SharedPlaceId), Details(SharedPlaceId)),
                                     "ok_contact", 0)
                ELSE EnrichPlaceDataFast(Stub(SharedPlaceId), 0, 5)
      other == EnrichPlaceDataFast(Stub(2), 0, 5)
  IN { [kind |-> "search", todo |-> <<mine>>, row |-> NoRow],
       [kind |-> "search", todo |-> <<other, mine>>, row |-> NoRow],
       [kind |-> "enrich", todo |-> <<SharedPlaceId>>, row |-> NoRow] }

\* no request in progress
WritersIdle ==
  /\ writers = <<>>
  /\ lastSet = NoRow

\* two requests have been accepted; the table is empty or holds the row an
\* earlier search stored for the shared place
WritersInit ==
  /\ writers \in [Writers -> UNION { WriterJobs(w) : w \in Writers }]
  /\ \A w \in Writers : writers[w] \in WriterJobs(w)
  /\ \E stored \in BOOLEAN :
       LET seed == SearchUpsert({}, EnrichPlaceDataFast(Stub(SharedPlaceId), 0, 24), 0)
       IN /\ placesTable = IF stored THEN seed ELSE {}
          /\ lastSet = IF stored THEN CHOOSE r \in seed : TRUE ELSE NoRow
  /\ clock = 1
  /\ ticks = 0
  /\ handled = 0
  /\ response = NoResponse
  /\ persistCount = [id \in StoreIds |-> 0]
  /\ lastPersistAt = [id \in StoreIds |-> NoNumber]

\* per column, the value supplied by the last statement that set it: the
\* INSERT ... ON CONFLICT of route.ts:96-144 sets every column but updated_at
\* (which the INSERT of a new row leaves at its default)
SetByUpsert(last, place, now) ==
  [c \in DOMAIN place \cup {"updated_at"} |->
     IF c = "stored_at" THEN now
     ELSE IF c = "updated_at" THEN (IF last = NoRow THEN NoNumber ELSE last[c])
     ELSE place[c]]

\* how a parameter that is undefined reaches the statement, per column
Absent(c) ==
  IF c \in {"year_founded", "company_age", "email_verified_at", "phone_verified_at",
            "website_verified_at", "contact_form_verified_at", "last_enriched_at"}
    THEN NoNumber ELSE NULL

\* the UPDATE of route.ts:667-717 sets updated_at and every column whose
\* parameter is not null
SetByUpdate(last, data, now) ==
  [c \in DOMAIN last |->
     IF c = "updated_at" THEN now
     ELSE IF c \in DOMAIN data /\ data[c] # Absent(c) THEN data[c]
     ELSE last[c]]

RowAsRead(table, read) == read
\* route.ts:689: WHERE place_id = $1 addresses the row as it is when the
\* UPDATE runs, not as the SELECT of route.ts:417 saw it
RowToUpdate(table, read) == CHOOSE r \in table : r.place_id = read.place_id

writersUnchanged == <<ticks, handled, response, persistCount, lastPersistAt>>

\* route.ts:95-157: a search request runs the upsert of its next place
UpsertNext(w) ==
  /\ writers[w].kind = "search"
  /\ writers[w].todo # <<>>
  /\ LET place == Head(writers[w].todo)
     IN /\ placesTable' = SearchUpsert(placesTable, place, clock)
        /\ lastSet' = IF place.place_id = SharedPlaceId
                        THEN SetByUpsert(lastSet, place, clock) ELSE lastSet
  /\ writers' = [writers EXCEPT ![w].todo = Tail(@)]
  /\ clock' = clock + 1
  /\ UNCHANGED writersUnchanged
  /\ UNCHANGED notStore

\* route.ts:417-423: an enrich request selects the row of its next place_id;
\* without a row the place is reported as not found
SelectRow(w) ==
  /\ writers[w].kind = "enrich"
  /\ writers[w].todo # <<>>
  /\ writers[w].row = NoRow
  /\ LET rows == { r \in placesTable : r.place_id = Head(writers[w].todo) }
     IN writers' = IF rows = {} THEN [writers EXCEPT ![w].todo = Tail(@)]
                   ELSE [writers EXCEPT ![w].row = CHOOSE r \in rows : TRUE]
  /\ UNCHANGED <<clock, placesTable, lastSet>>
  /\ UNCHANGED writersUnchanged
  /\ UNCHANGED notStore

\* route.ts:426-429: the row that was read is enriched and the UPDATE runs
UpdateRow(w) ==
  /\ writers[w].kind = "enrich"
  /\ writers[w].row # NoRow
  /\ \E c \in EnrichChoices(writers[w].row) :
       LET enrichedData == EnrichPlace(writers[w].row, c.api, c.site, clock)
           row == RowToUpdate(placesTable, writers[w].row)
       IN /\ placesTable' = (placesTable \ { r \in placesTable : r.place_id = row.place_id })
                              \cup { UpdatePlaceWithEnrichment(row, enrichedData, clock) }
          /\ lastSet' = SetByUpdate(lastSet, enrichedData, clock)
  /\ writers' = [writers EXCEPT ![w].todo = Tail(@), ![w].row = NoRow]
  /\ clock' = clock + 1
  /\ UNCHANGED writersUnchanged
  /\ UNCHANGED notStore

\* route.ts:163-166 and 432-435: a statement throws; the search request stops
\* saving, the enrich request reports the place as failed
StatementFails(w) ==
  /\ writers[w].todo # <<>>
  /\ writers' = [writers EXCEPT ![w].todo = IF writers[w].kind = "search" THEN <<>> ELSE Tail(@),
                                ![w].row = NoRow]
  /\ UNCHANGED <<clock, placesTable, lastSet>>
  /\ UNCHANGED writersUnchanged
  /\ UNCHANGED notStore

WritersNext ==
  \/ \E w \in Writers : UpsertNext(w)
  \/ \E w \in Writers : SelectRow(w)
  \/ \E w \in Writers : UpdateRow(w)
  \/ \E w \in Writers : StatementFails(w)

\* C27: however the statements of two requests that write the same place_id
\* interleave, the table holds exactly one row for that place_id, and each of
\* its columns holds the value supplied by the last statement that set it.
C27_OneRowLastWriteWins ==
  /\ \A r1, r2 \in placesTable : r1.place_id = r2.place_id => r1 = r2
  /\ lastSet # NoRow =>
       \E r \in placesTable :
         /\ r.place_id = SharedPlaceId
         /\ \A c \in DOMAIN r : r[c] = lastSet[c]

\* a search request has written the shared place between the SELECT and the
\* UPDATE of an enrich request, and both requests are finished
C27_Witness ==
  /\ \A w \in Writers : writers[w].todo = <<>>
  /\ writers[1].kind = "search" /\ writers[2].kind = "enrich"
  /\ \E r \in placesTable :
       /\ r.place_id = SharedPlaceId
       /\ r.name = "Acme Corp"
       /\ r.website = "https://acme.test"
       /\ r.stored_at < r.updated_at
       /\ r.updated_at = clock - 1
       /\ r.stored_at = clock - 2
       /\ r.industry = "Software"

\* C28: a response of the search route says cached = true exactly when its
\* places were read from the cache and no provider search ran for the request.
C28_CachedIffServedFromCache ==
  (response.route = "search" /\ response.status = 200) =>
    (response.cached <=>
       (response.kind = "cache" /\ \A k \in 1..Len(response.calls) :
                                      response.calls[k] # "provider"))

\* C29: once searchGooglePlaces has returned its records, the call of
\* searchGooglePlacesEnhanced ends by returning exactly one Place per record, in
\* the same order and with the same place_id, in every mode.
C29_OnePlacePerRecord ==
  spc \in {"done", "rejected"} =>
    /\ spc = "done"
    /\ Len(enrichedPlaces) = Len(googlePlaces)
    /\ \A k \in 1..Len(googlePlaces) :
         enrichedPlaces[k].place_id = googlePlaces[k].place_id

\* ------------------------------------------------------------------------
\* enrichPlaceDataFast called twice on the same record
\* ------------------------------------------------------------------------

\* the records enrichPlaceDataFast is called on: search results as the text
\* search returns them and with their details merged
FastInputs ==
  { Stub(id) : id \in PlaceIds } \cup { MergeDetails(Stub(id), Details(id)) : id \in PlaceIds }

\* how long after the first call the second one runs, in ms
RunGaps == {1, 1000}

\* googlePlaces holds the record, enrichedPlaces collects what each call returns
FastTwiceInit ==
  /\ isProduction = TRUE
  /\ searchQuery = <<>>
  /\ maxResultsArg = 0
  /\ pageMenu = {}
  /\ spc = "fast_runs"
  /\ searchVariations = <<>>
  /\ varIdx = 0
  /\ allResults = <<>>
  /\ seenPlaceIds = {}
  /\ sqResults = <<>>
  /\ nextPageToken = FALSE
  /\ pageCount = 0
  /\ sqMaxResults = 0
  /\ invalidRetries = 0
  /\ rawResults = <<>>
  /\ finalResults = <<>>
  /\ enhancedResults = <<>>
  /\ detailIdx = 0
  /\ \E gp \in FastInputs : googlePlaces = <<gp>>
  /\ enrichedPlaces = <<>>
  /\ enrichIdx = 0
  /\ elapsed = 0
  /\ netCalls = {}
  /\ enrichThrew = {}
  /\ lastTextSearch = NoRequest
  /\ detailsFailed = {}
  /\ inFlightPeak = NoneInFlight

fastTwiceUnchanged ==
  <<isProduction, searchQuery, maxResultsArg, pageMenu, spc, searchVariations,
    varIdx, allResults, seenPlaceIds, sqResults, nextPageToken, pageCount,
    sqMaxResults, invalidRetries, rawResults, finalResults, enhancedResults,
    detailIdx, googlePlaces, netCalls, lastTextSearch, detailsFailed, inFlightPeak>>

\* places.ts:907-949: one call of enrichPlaceDataFast(place) returns
RunFast ==
  /\ spc = "fast_runs"
  /\ enrichIdx < 2
  /\ ~EnrichPlaceDataFastThrows(googlePlaces[1])
  /\ \E offset \in FoundingOffsets :
       enrichedPlaces' = Append(enrichedPlaces,
                                EnrichPlaceDataFast(googlePlaces[1], elapsed, offset))
  /\ enrichIdx' = enrichIdx + 1
  /\ \E gap \in RunGaps : elapsed' = elapsed + gap
  /\ UNCHANGED enrichThrew
  /\ UNCHANGED fastTwiceUnchanged
  /\ UNCHANGED notSearch

\* places.ts:908-918: one call of enrichPlaceDataFast(place) throws
RunFastThrows ==
  /\ spc = "fast_runs"
  /\ enrichIdx < 2
  /\ EnrichPlaceDataFastThrows(googlePlaces[1])
  /\ enrichThrew' = enrichThrew \cup {googlePlaces[1].place_id}
  /\ enrichIdx' = enrichIdx + 1
  /\ \E gap \in RunGaps : elapsed' = elapsed + gap
  /\ UNCHANGED enrichedPlaces
  /\ UNCHANGED fastTwiceUnchanged
  /\ UNCHANGED notSearch

FastTwiceNext ==
  \/ RunFast
  \/ RunFastThrows

\* C30: two calls of enrichPlaceDataFast on the same record return records that
\* agree on every field other than stored_at and last_enriched_at.
C30_FastEnrichmentDeterministic ==
  (spc = "fast_runs" /\ Len(enrichedPlaces) = 2) =>
    \A c \in DOMAIN enrichedPlaces[1] \ {"stored_at", "last_enriched_at"} :
      enrichedPlaces[1][c] = enrichedPlaces[2][c]


\* ------------------------------------------------------------------------
\* Specifications
\* ------------------------------------------------------------------------

\* one call of retryWithBackoff
InitRetry ==
  RetryInit /\ VariationIdle /\ SearchIdle /\ isProduction = FALSE /\ StoreIdle
  /\ WritersIdle
SpecRetry == InitRetry /\ [][RetryNext]_vars

\* one call of generateSearchVariations
InitVariations ==
  VariationInit /\ RetryIdle /\ SearchIdle /\ isProduction = FALSE /\ StoreIdle
  /\ WritersIdle
SpecVariations == InitVariations /\ [][VariationNext]_vars

\* one call of searchGooglePlaces
InitSearch == SearchInit /\ RetryIdle /\ VariationIdle /\ StoreIdle /\ WritersIdle
SpecSearch == InitSearch /\ [][SearchNext]_vars

\* one call of searchGooglePlacesEnhanced
InitEnhanced == EnhancedInit /\ RetryIdle /\ VariationIdle /\ StoreIdle /\ WritersIdle
SpecEnhanced == InitEnhanced /\ [][EnhancedNext]_vars

\* the routes and enrichment passes over the places table
InitStore ==
  StoreIdle /\ RetryIdle /\ VariationIdle /\ SearchIdle /\ isProduction \in BOOLEAN
  /\ WritersIdle
SpecStore == InitStore /\ [][StoreNext]_vars

\* two overlapping requests that write the same place_id
InitWriters ==
  WritersInit /\ RetryIdle /\ VariationIdle /\ SearchIdle /\ isProduction = FALSE
SpecWriters == InitWriters /\ [][WritersNext]_vars

\* two calls of enrichPlaceDataFast on one record
InitFastTwice == FastTwiceInit /\ RetryIdle /\ VariationIdle /\ StoreIdle /\ WritersIdle
SpecFastTwice == InitFastTwice /\ [][FastTwiceNext]_vars

====
